---- MODULE Spec2Model ----
(***************************************************************************)
(* Group membership and lifecycle protocol of the mahjong coordinator:     *)
(* the Firestore collections groups, group_members, games and              *)
(* game_responses, and the operations of src/hooks/useGroups.js and        *)
(* src/hooks/useGroupAdmin.js that read and write them, together with the  *)
(* occurrence generator of src/utils/groupUtils.js.                        *)
(*                                                                         *)
(* Dates are day numbers counted from 1970-01-01 (a Thursday); the server  *)
(* clock `now` counts ticks, TicksPerDay of them to a day.  The audit      *)
(* fields created_at / updated_at are written by the code and read by      *)
(* nothing; they are left out of the records.                              *)
(***************************************************************************)
EXTENDS Integers, Sequences, FiniteSets, TLC

VARIABLES groups, group_members, games, game_responses, now, nextGroup, tzShift, last,
          sessions, call

vars == <<groups, group_members, games, game_responses, now, nextGroup, tzShift, last,
          sessions, call>>

store == <<groups, group_members, games, game_responses>>

(***************************************************************************)
(* Bounds of the model.                                                    *)
(***************************************************************************)
MaxGroups == 1
MaxNow == 1
TicksPerDay == 2
MaxDrift == 1

\* 2026-11-05, a Thursday, as a day number: the day the server clock starts.
StartDay == 20762

UserOrder == <<"u1", "u2", "u3">>
Users == {UserOrder[i] : i \in 1..Len(UserOrder)}
NoUser == "nobody"
Callers == Users \cup {NoUser}

GroupOrder == <<"g1", "g2", "g3", "g4">>

Index(seq, x) == CHOOSE i \in 1..Len(seq) : seq[i] = x

(***************************************************************************)
(* Calendar arithmetic of the JavaScript Date object on whole days.        *)
(***************************************************************************)
\* new Date(y, m, d) for a month 1..12 and a day of that month: yy is the
\* March-based year, doy the day of that year
DaysFromMarchYear(yy, doy) ==
  (yy \div 400) * 146097 + (yy % 400) * 365 + (yy % 400) \div 4 - (yy % 400) \div 100
  + doy - 719468

DaysFromCivil(y, m, d) ==
  DaysFromMarchYear(IF m <= 2 THEN y - 1 ELSE y,
                    (153 * (IF m > 2 THEN m - 3 ELSE m + 9) + 2) \div 5 + d - 1)

\* getFullYear / getMonth (1..12 here) / getDate of a day number, computed from the
\* day of the 400-year era (doe), the year of the era (yoe) and the day of the
\* March-based year (doy)
MonthOfMp(mp) == IF mp < 10 THEN mp + 3 ELSE mp - 9

CivilFromParts(era, yoe, doy, mp) ==
  [y |-> yoe + era * 400 + (IF MonthOfMp(mp) <= 2 THEN 1 ELSE 0),
   m |-> MonthOfMp(mp),
   d |-> doy - (153 * mp + 2) \div 5 + 1]

CivilFromDoy(era, yoe, doy) == CivilFromParts(era, yoe, doy, (5 * doy + 2) \div 153)

CivilFromYoe(era, doe, yoe) ==
  CivilFromDoy(era, yoe, doe - (365 * yoe + yoe \div 4 - yoe \div 100))

CivilFromDoe(era, doe) ==
  CivilFromYoe(era, doe, (doe - doe \div 1460 + doe \div 36524 - doe \div 146096) \div 365)

CivilFromDays(z) == CivilFromDoe((z + 719468) \div 146097, (z + 719468) % 146097)

\* Date.getDay(): 0 = Sunday .. 6 = Saturday
GetDay(z) == (z + 4) % 7

DAY_MAP(day) ==
  CASE day = "Sunday" -> 0
    [] day = "Monday" -> 1
    [] day = "Tuesday" -> 2
    [] day = "Wednesday" -> 3
    [] day = "Thursday" -> 4
    [] day = "Friday" -> 5
    [] day = "Saturday" -> 6
    [] OTHER -> 4

\* getUTCDay() || 7
IsoDayNum(z) == IF GetDay(z) = 0 THEN 7 ELSE GetDay(z)

\* Math.ceil((((d - yearStart) / 86400000) + 1) / 7) for d the Thursday of the week
WeekOfThursday(thu) == (thu - DaysFromCivil(CivilFromDays(thu).y, 1, 1) + 1 + 6) \div 7

\* getWeekNumber: the ISO week number of a day
getWeekNumber(z) == WeekOfThursday(z + 4 - IsoDayNum(z))

\* setMonth(getMonth() + 1) on the civil date c: the day of the month is kept, and a
\* day the next month does not have rolls into the month after it
SetNextMonth(c) ==
  CivilFromDays(DaysFromCivil(IF c.m = 12 THEN c.y + 1 ELSE c.y,
                              IF c.m = 12 THEN 1 ELSE c.m + 1, 1) + c.d - 1)

\* setDate(1)
SetFirstDay(c) == DaysFromCivil(c.y, c.m, 1)

\* nextMonth = new Date(currentDate); setMonth(getMonth() + 1); setDate(1)
FirstOfNextMonth(z) == SetFirstDay(SetNextMonth(CivilFromDays(z)))

(***************************************************************************)
(* generateUpcomingGames (src/utils/groupUtils.js).                        *)
(***************************************************************************)
\* The last Sunday of month m of year y
LastSunday(y, m) == DaysFromCivil(y, m, 31) - GetDay(DaysFromCivil(y, m, 31))

\* Whether the local midnight of a date is in summer time: clocks go forward at
\* 01:00 UTC on the last Sunday of March and back on the last Sunday of October
InSummerTime(date) ==
  /\ date > LastSunday(CivilFromDays(date).y, 3)
  /\ date <= LastSunday(CivilFromDays(date).y, 10)

\* getTimezoneOffset at the local midnight of a date, in hours east of Greenwich;
\* tzShift is the zone's offset in standard time
UtcOffset(date) == tzShift + (IF InSummerTime(date) THEN 1 ELSE 0)

\* gameDate.toISOString().split('T')[0]: the UTC calendar date of a local midnight,
\* which is the day before where local time is ahead of UTC
ToISODate(date) == IF UtcOffset(date) > 0 THEN date - 1 ELSE date

\* gameDays.map(day => DAY_MAP[day] ?? 4).sort((a, b) => a - b)
TargetDays(gameDays) ==
  SortSeq([i \in 1..Len(gameDays) |-> DAY_MAP(gameDays[i])], LAMBDA a, b : a < b)

\* The game object pushed for one date
NewGame(groupInfo, gameDate) ==
  [id |-> <<groupInfo.id, ToISODate(gameDate)>>,
   group_id |-> groupInfo.id,
   date |-> gameDate,
   time |-> groupInfo.time,
   host |-> "null",
   responses |-> <<>>]

\* daysUntilTarget and the date the loop body derives from it
DaysUntilTarget(targetDay, currentDate) == (targetDay - GetDay(currentDate) + 7) % 7

\* A date rule that never takes the current day itself
GameDateAfterToday(daysUntilTarget, currentDate, today) ==
  IF daysUntilTarget > 0 THEN currentDate + daysUntilTarget ELSE currentDate + 7

GameDateFor(daysUntilTarget, currentDate, today) ==
  IF daysUntilTarget > 0 \/ (daysUntilTarget = 0 /\ currentDate >= today)
  THEN currentDate + daysUntilTarget
  ELSE currentDate + daysUntilTarget + 7

\* if (gameDate >= today) { if (!games.find(g => g.id === gameId)) games.push(...) }
PushGame(acc, game, today) ==
  IF game.date >= today /\ ~(\E k \in 1..Len(acc) : acc[k].id = game.id)
  THEN Append(acc, game)
  ELSE acc

\* The for loop over targetDays from index i on, for one value of currentDate
RECURSIVE AddGames(_, _, _, _, _, _)
AddGames(groupInfo, targetDays, i, currentDate, today, acc) ==
  IF i > Len(targetDays) THEN acc
  ELSE AddGames(groupInfo, targetDays, i + 1, currentDate, today,
                PushGame(acc,
                         NewGame(groupInfo,
                                 GameDateFor(DaysUntilTarget(targetDays[i], currentDate),
                                             currentDate, today)),
                         today))

\* A loop body whose monthly branch changes nothing
LoopBodyMonthlyStuck(groupInfo, targetDays, frequency, today, st, currentWeek) ==
  IF currentWeek # st.lastWeekNumber /\ frequency = "biweekly" /\ st.weekCount % 2 # 0
  THEN [st EXCEPT !.lastWeekNumber = currentWeek,
                  !.weekCount = @ + 1,
                  !.currentDate = @ + 7]
  ELSE IF frequency = "monthly" /\ st.weekCount > 0
  THEN st
  ELSE [st EXCEPT !.lastWeekNumber = currentWeek,
                  !.weekCount = IF currentWeek # st.lastWeekNumber THEN @ + 1 ELSE @,
                  !.games = AddGames(groupInfo, targetDays, 1, st.currentDate, today, @),
                  !.currentDate = @ + 7]

\* One pass of the while loop body; st holds currentDate, weekCount, lastWeekNumber
\* and games, and currentWeek is getWeekNumber(currentDate)
LoopBody(groupInfo, targetDays, frequency, today, st, currentWeek) ==
  IF currentWeek # st.lastWeekNumber /\ frequency = "biweekly" /\ st.weekCount % 2 # 0
  THEN [st EXCEPT !.lastWeekNumber = currentWeek,
                  !.weekCount = @ + 1,
                  !.currentDate = @ + 7]
  ELSE IF currentWeek # st.lastWeekNumber /\ frequency = "monthly" /\ st.weekCount > 0
  THEN [st EXCEPT !.lastWeekNumber = currentWeek,
                  !.weekCount = @ + 1,
                  !.currentDate = FirstOfNextMonth(@)]
  ELSE [st EXCEPT !.lastWeekNumber = currentWeek,
                  !.weekCount = IF currentWeek # st.lastWeekNumber THEN @ + 1 ELSE @,
                  !.games = AddGames(groupInfo, targetDays, 1, st.currentDate, today, @),
                  !.currentDate = @ + 7]

\* while (weekCount < weeksCount)
RECURSIVE GenLoop(_, _, _, _, _, _)
GenLoop(groupInfo, targetDays, frequency, weeksCount, today, st) ==
  IF ~(st.weekCount < weeksCount) THEN st.games
  ELSE GenLoop(groupInfo, targetDays, frequency, weeksCount, today,
               LoopBody(groupInfo, targetDays, frequency, today, st,
                        getWeekNumber(st.currentDate)))

\* A slice of the games in the order they were pushed
SliceUnsorted(all, limit) ==
  SubSeq(all, 1, IF Len(all) < limit THEN Len(all) ELSE limit)

\* games.sort((a, b) => a.date - b.date).slice(0, limit)
SortAndSlice(all, limit) ==
  SubSeq(SortSeq(all, LAMBDA a, b : a.date < b.date), 1,
         IF Len(all) < limit THEN Len(all) ELSE limit)

GenerateFor(groupInfo, targetDays, weeksCount, today) ==
  SortAndSlice(GenLoop(groupInfo, targetDays, groupInfo.frequency, weeksCount, today,
                       [currentDate |-> today, weekCount |-> 0,
                        lastWeekNumber |-> -1, games |-> <<>>]),
               weeksCount * Len(targetDays))

\* groupInfo has id, game_days, time, frequency; today is the local date at the call
generateUpcomingGames(groupInfo, weeksCount, today) ==
  GenerateFor(groupInfo, TargetDays(groupInfo.game_days), weeksCount, today)

(***************************************************************************)
(* The Firestore store: four collections, each a function from document    *)
(* id to document, and write batches that commit all or nothing.           *)
(***************************************************************************)
Null == "null"

NoDocs == [x \in {} |-> x]

DB == [groups |-> groups, group_members |-> group_members,
       games |-> games, game_responses |-> game_responses]

\* batch.set / batch.update / batch.delete; inc is the increment() of member_count
SetW(coll, id, data) == [op |-> "set", coll |-> coll, id |-> id, data |-> data, inc |-> 0]
UpdateW(coll, id, data, inc) ==
  [op |-> "update", coll |-> coll, id |-> id, data |-> data, inc |-> inc]
DeleteW(coll, id) == [op |-> "delete", coll |-> coll, id |-> id, data |-> NoDocs, inc |-> 0]

\* updateDoc / batch.update: the fields given replace the stored ones, and
\* increment(n) adds n to member_count
Merge(old, w) ==
  IF w.inc = 0 THEN w.data @@ old
  ELSE [(w.data @@ old) EXCEPT !.member_count = @ + w.inc]

ApplyWrite(db, w) ==
  CASE w.op = "set" -> [db EXCEPT ![w.coll] = (w.id :> w.data) @@ @]
    [] w.op = "update" -> [db EXCEPT ![w.coll] = [@ EXCEPT ![w.id] = Merge(@, w)]]
    [] w.op = "delete" -> [db EXCEPT ![w.coll] = [x \in DOMAIN @ \ {w.id} |-> @[x]]]

\* The writes of a batch apply in order to db; an update of a document that does not
\* exist rejects the whole batch, and the store stays as it was before (db0)
RECURSIVE ApplyFrom(_, _, _, _)
ApplyFrom(db0, db, batch, i) ==
  IF i > Len(batch) THEN [ok |-> TRUE, db |-> db]
  ELSE IF batch[i].op = "update" /\ batch[i].id \notin DOMAIN db[batch[i].coll]
  THEN [ok |-> FALSE, db |-> db0]
  ELSE ApplyFrom(db0, ApplyWrite(db, batch[i]), batch, i + 1)

\* batch.commit(): up = FALSE is the store refusing the commit (unavailable, aborted);
\* a rejected batch writes nothing
Commit(db, batch, up) ==
  IF ~up THEN [ok |-> FALSE, db |-> db] ELSE ApplyFrom(db, db, batch, 1)

\* snapshot.docs.forEach(d => batch.delete(...)) over the ids S of a query result
RECURSIVE DeleteAll(_, _)
DeleteAll(coll, S) ==
  IF S = {} THEN <<>>
  ELSE <<DeleteW(coll, CHOOSE x \in S : TRUE)>> \o DeleteAll(coll, S \ {CHOOSE x \in S : TRUE})

\* The documents of a collection whose group_id is groupId
DocsOfGroup(db, coll, groupId) ==
  {id \in DOMAIN db[coll] : db[coll][id].group_id = groupId}

\* `${uid}_${groupId}`
MembershipId(uid, groupId) == <<uid, groupId>>

\* A query without the orderBy: document id order alone
MemberBeforeById(db, a, b) == Index(UserOrder, a[1]) < Index(UserOrder, b[1])

\* Order of a query result: the orderBy field first, then the document id
MemberBefore(db, a, b) ==
  \/ db.group_members[a].joined_at < db.group_members[b].joined_at
  \/ /\ db.group_members[a].joined_at = db.group_members[b].joined_at
     /\ Index(UserOrder, a[1]) < Index(UserOrder, b[1])

\* The first document of S in that order
FirstMember(db, S) == CHOOSE x \in S : \A y \in S \ {x} : MemberBefore(db, x, y)

RECURSIVE SortMembers(_, _)
SortMembers(db, S) ==
  IF S = {} THEN <<>>
  ELSE <<FirstMember(db, S)>> \o SortMembers(db, S \ {FirstMember(db, S)})

\* query(group_members, where group_id == groupId, orderBy joined_at asc)
MembersByJoinedAt(db, groupId) == SortMembers(db, DocsOfGroup(db, "group_members", groupId))

\* What an operation returns, with the call it answers
Result(op, user, arg, group, target, success, note) ==
  [op |-> op, user |-> user, arg |-> arg, group |-> group, target |-> target,
   success |-> success, note |-> note]

Outcome(db, result) == [db |-> db, result |-> result]

\* The local calendar date and the instant of a local midnight, on the server clock
Today(t) == StartDay + t \div TicksPerDay
MidnightOf(date) == (date - StartDay) * TicksPerDay

(***************************************************************************)
(* Invite codes and the strings a user may type to join.                   *)
(***************************************************************************)
CodeOrder == <<"ABC234", "XYZ789">>
Codes == {CodeOrder[i] : i \in 1..Len(CodeOrder)}
TypedOrder == <<"abc234", "xyZ789">>
UpperGroupOrder == <<"G1", "G2", "G3", "G4">>

GroupIds == {GroupOrder[i] : i \in 1..MaxGroups}

\* String.prototype.toUpperCase on the strings of the model
ToUpperCase(x) ==
  IF \E i \in 1..Len(TypedOrder) : TypedOrder[i] = x
  THEN CodeOrder[Index(TypedOrder, x)]
  ELSE IF \E i \in 1..Len(GroupOrder) : GroupOrder[i] = x
  THEN UpperGroupOrder[Index(GroupOrder, x)]
  ELSE x

JoinInputs == GroupIds \cup Codes \cup {TypedOrder[i] : i \in 1..Len(TypedOrder)}

(***************************************************************************)
(* useUserGroups (src/hooks/useGroups.js): createGroup, joinGroup,         *)
(* leaveGroup.  Each takes the store it reads and returns the store it     *)
(* leaves and its result.                                                  *)
(***************************************************************************)
GameDoc(groupId, game) ==
  [group_id |-> groupId, date |-> game.date, time |-> game.time,
   host_id |-> Null, host_name |-> Null, host_address |-> Null]

\* A create that writes every game under one document id
GameWritesOneId(groupId, newGames) ==
  [i \in 1..Len(newGames) |-> SetW("games", newGames[1].id, GameDoc(groupId, newGames[i]))]

GameWrites(groupId, newGames) ==
  [i \in 1..Len(newGames) |-> SetW("games", newGames[i].id, GameDoc(groupId, newGames[i]))]

CreateGroupBatch(user, groupData, inviteCode, groupId, t) ==
  <<SetW("groups", groupId,
         [group_name |-> groupData.name,
          game_days |-> groupData.gameDays,
          time |-> groupData.time,
          timezone |-> groupData.timezone,
          frequency |-> groupData.frequency,
          admin_id |-> user,
          invite_code |-> inviteCode,
          member_count |-> 1]),
    SetW("group_members", MembershipId(user, groupId),
         [user_id |-> user, group_id |-> groupId, is_admin |-> TRUE, joined_at |-> t])>>
  \o GameWrites(groupId,
                generateUpcomingGames([id |-> groupId,
                                       game_days |-> groupData.gameDays,
                                       time |-> groupData.time,
                                       frequency |-> groupData.frequency], 8, Today(t)))

\* await batch.commit() and the return after it, or the catch block: c is the commit
Committed(c, db, done, failed) ==
  IF c.ok THEN Outcome(c.db, done) ELSE Outcome(db, failed)

createGroup(db, user, groupData, inviteCode, groupId, t, up) ==
  IF user = NoUser
  THEN Outcome(db, Result("createGroup", user, Null, Null, Null, FALSE, "signIn"))
  ELSE Committed(Commit(db, CreateGroupBatch(user, groupData, inviteCode, groupId, t), up), db,
                 Result("createGroup", user, inviteCode, groupId, Null, TRUE, "ok"),
                 Result("createGroup", user, inviteCode, groupId, Null, FALSE, "storeError"))

\* docs[0] of the query by invite_code: the first match in document id order
FirstOf(hits) ==
  IF hits = {} THEN Null
  ELSE GroupOrder[CHOOSE i \in hits : \A j \in hits : i <= j]

FirstByCode(db, code) ==
  FirstOf({i \in 1..Len(GroupOrder) :
             /\ GroupOrder[i] \in DOMAIN db.groups
             /\ db.groups[GroupOrder[i]].invite_code = code})

\* A lookup that compares the invite code as typed
ResolveGroupAsTyped(db, inviteCodeOrId) ==
  IF inviteCodeOrId \in DOMAIN db.groups THEN inviteCodeOrId
  ELSE FirstByCode(db, inviteCodeOrId)

\* The group a join string resolves to: by document id, else by invite code
ResolveGroup(db, inviteCodeOrId) ==
  IF inviteCodeOrId \in DOMAIN db.groups THEN inviteCodeOrId
  ELSE FirstByCode(db, ToUpperCase(inviteCodeOrId))

\* A join that flags the new member as admin
JoinBatchAsAdmin(user, groupId, t) ==
  <<SetW("group_members", MembershipId(user, groupId),
         [user_id |-> user, group_id |-> groupId, is_admin |-> TRUE, joined_at |-> t]),
    UpdateW("groups", groupId, NoDocs, 1)>>

JoinBatch(user, groupId, t) ==
  <<SetW("group_members", MembershipId(user, groupId),
         [user_id |-> user, group_id |-> groupId, is_admin |-> FALSE, joined_at |-> t]),
    UpdateW("groups", groupId, NoDocs, 1)>>

\* A join without the check for an existing membership
JoinResolvedUnchecked(db, user, inviteCodeOrId, groupId, t, up) ==
  IF groupId = Null
  THEN Outcome(db, Result("joinGroup", user, inviteCodeOrId, Null, Null, FALSE, "invalidCode"))
  ELSE Committed(Commit(db, JoinBatch(user, groupId, t), up), db,
                 Result("joinGroup", user, inviteCodeOrId, groupId, Null, TRUE, "ok"),
                 Result("joinGroup", user, inviteCodeOrId, groupId, Null, FALSE, "storeError"))

\* joinGroup from the membership check on, for the group the string resolved to
JoinResolved(db, user, inviteCodeOrId, groupId, t, up) ==
  IF groupId = Null
  THEN Outcome(db, Result("joinGroup", user, inviteCodeOrId, Null, Null, FALSE, "invalidCode"))
  ELSE IF MembershipId(user, groupId) \in DOMAIN db.group_members
  THEN Outcome(db, Result("joinGroup", user, inviteCodeOrId, groupId, Null, TRUE, "alreadyMember"))
  ELSE Committed(Commit(db, JoinBatch(user, groupId, t), up), db,
                 Result("joinGroup", user, inviteCodeOrId, groupId, Null, TRUE, "ok"),
                 Result("joinGroup", user, inviteCodeOrId, groupId, Null, FALSE, "storeError"))

joinGroup(db, user, inviteCodeOrId, t, up) ==
  IF user = NoUser
  THEN Outcome(db, Result("joinGroup", user, inviteCodeOrId, Null, Null, FALSE, "signIn"))
  ELSE JoinResolved(db, user, inviteCodeOrId, ResolveGroup(db, inviteCodeOrId), t, up)

\* membersSnapshot.docs.filter(d => d.data().user_id !== user.uid)
OtherMembers(db, user, groupId) ==
  SelectSeq(MembersByJoinedAt(db, groupId), LAMBDA m : db.group_members[m].user_id # user)

\* The last member's leave deleting the group and forgetting its games
AdminLeaveWritesKeepGames(db, groupId, otherMembers) ==
  IF Len(otherMembers) > 0
  THEN <<UpdateW("groups", groupId,
                 [admin_id |-> db.group_members[otherMembers[1]].user_id], 0),
         UpdateW("group_members", otherMembers[1], [is_admin |-> TRUE], 0)>>
  ELSE <<DeleteW("groups", groupId)>>

\* if (isAdmin): hand the group to the oldest other member, or delete it with its games
AdminLeaveWrites(db, groupId, otherMembers) ==
  IF Len(otherMembers) > 0
  THEN <<UpdateW("groups", groupId,
                 [admin_id |-> db.group_members[otherMembers[1]].user_id], 0),
         UpdateW("group_members", otherMembers[1], [is_admin |-> TRUE], 0)>>
  ELSE <<DeleteW("groups", groupId)>>
       \o DeleteAll("games", DocsOfGroup(db, "games", groupId))

\* The batch leaveGroup builds from the group document and the queries it runs
LeaveBatch(db, user, groupId) ==
  (IF db.groups[groupId].admin_id = user
   THEN AdminLeaveWrites(db, groupId, OtherMembers(db, user, groupId))
   ELSE <<>>)
  \o <<DeleteW("group_members", MembershipId(user, groupId))>>
  \o (IF db.groups[groupId].admin_id # user \/ db.groups[groupId].member_count > 1
      THEN <<UpdateW("groups", groupId, NoDocs, -1)>>
      ELSE <<>>)

leaveGroup(db, user, groupId, up) ==
  IF user = NoUser
  THEN Outcome(db, Result("leaveGroup", user, groupId, Null, Null, FALSE, "signIn"))
  ELSE IF groupId \notin DOMAIN db.groups
  THEN Outcome(db, Result("leaveGroup", user, groupId, Null, Null, FALSE, "notFound"))
  ELSE Committed(Commit(db, LeaveBatch(db, user, groupId), up), db,
                 Result("leaveGroup", user, groupId, groupId, Null, TRUE,
                        IF db.groups[groupId].admin_id = user THEN "wasAdmin" ELSE "ok"),
                 Result("leaveGroup", user, groupId, groupId, Null, FALSE, "storeError"))

(***************************************************************************)
(* useGroupAdmin (src/hooks/useGroupAdmin.js).                             *)
(***************************************************************************)
\* if (updates.game_days || updates.time || updates.frequency)
ScheduleChanged(updates) ==
  "game_days" \in DOMAIN updates \/ "time" \in DOMAIN updates \/ "frequency" \in DOMAIN updates

\* updates.f || currentGroup.f
Either(updates, currentGroup, f) ==
  IF f \in DOMAIN updates THEN updates[f] ELSE currentGroup[f]

\* A schedule change that deletes no stored game
FutureGamesNone(db, groupId, t) == {}

\* gamesSnapshot.docs with new Date(date) > now
FutureGames(db, groupId, t) ==
  {id \in DocsOfGroup(db, "games", groupId) : MidnightOf(db.games[id].date) > t}

\* The batch of the schedule change: future games deleted, new games set; currentGroup
\* is the group document read before updateDoc
RegenerateBatch(db, groupId, currentGroup, updates, t) ==
  DeleteAll("games", FutureGames(db, groupId, t))
  \o GameWrites(groupId,
                generateUpcomingGames(
                  [id |-> groupId,
                   game_days |-> Either(updates, currentGroup, "game_days"),
                   time |-> Either(updates, currentGroup, "time"),
                   frequency |-> Either(updates, currentGroup, "frequency")],
                  8, Today(t)))

\* updateGroupSettings after updateDoc has succeeded on the store db1
RegenerateGames(db1, user, groupId, currentGroup, updates, t, up) ==
  IF ~ScheduleChanged(updates)
  THEN Outcome(db1, Result("updateGroupSettings", user, groupId, groupId, Null, TRUE, "ok"))
  ELSE Committed(Commit(db1, RegenerateBatch(db1, groupId, currentGroup, updates, t), up), db1,
                 Result("updateGroupSettings", user, groupId, groupId, Null, TRUE, "ok"),
                 Result("updateGroupSettings", user, groupId, groupId, Null, FALSE, "storeError"))

\* c1 is the result of updateDoc
AfterUpdateDoc(c1, db, user, groupId, updates, t, up) ==
  IF ~c1.ok
  THEN Outcome(db, Result("updateGroupSettings", user, groupId, groupId, Null, FALSE, "storeError"))
  ELSE RegenerateGames(c1.db, user, groupId, db.groups[groupId], updates, t, up)

\* fault = 1: updateDoc is refused; fault = 2: the later batch.commit is refused
updateGroupSettings(db, user, groupId, updates, t, fault) ==
  IF user = NoUser
  THEN Outcome(db, Result("updateGroupSettings", user, groupId, Null, Null, FALSE, "signIn"))
  ELSE IF groupId \notin DOMAIN db.groups
  THEN Outcome(db, Result("updateGroupSettings", user, groupId, Null, Null, FALSE, "notFound"))
  ELSE IF db.groups[groupId].admin_id # user
  THEN Outcome(db, Result("updateGroupSettings", user, groupId, groupId, Null, FALSE, "notAdmin"))
  ELSE AfterUpdateDoc(Commit(db, <<UpdateW("groups", groupId, updates, 0)>>, fault # 1),
                      db, user, groupId, updates, t, fault # 2)

\* regenerateInviteCode without the admin check
regenerateInviteCodeByAnyone(db, user, groupId, newCode, up) ==
  IF user = NoUser
  THEN Outcome(db, Result("regenerateInviteCode", user, groupId, Null, Null, FALSE, "signIn"))
  ELSE IF groupId \notin DOMAIN db.groups
  THEN Outcome(db, Result("regenerateInviteCode", user, groupId, Null, Null, FALSE, "notFound"))
  ELSE Committed(Commit(db, <<UpdateW("groups", groupId, [invite_code |-> newCode], 0)>>, up), db,
                 Result("regenerateInviteCode", user, groupId, groupId, Null, TRUE, "ok"),
                 Result("regenerateInviteCode", user, groupId, groupId, Null, FALSE, "storeError"))

regenerateInviteCode(db, user, groupId, newCode, up) ==
  IF user = NoUser
  THEN Outcome(db, Result("regenerateInviteCode", user, groupId, Null, Null, FALSE, "signIn"))
  ELSE IF groupId \notin DOMAIN db.groups
  THEN Outcome(db, Result("regenerateInviteCode", user, groupId, Null, Null, FALSE, "notFound"))
  ELSE IF db.groups[groupId].admin_id # user
  THEN Outcome(db, Result("regenerateInviteCode", user, groupId, groupId, Null, FALSE, "notAdmin"))
  ELSE Committed(Commit(db, <<UpdateW("groups", groupId, [invite_code |-> newCode], 0)>>, up), db,
                 Result("regenerateInviteCode", user, groupId, groupId, Null, TRUE, "ok"),
                 Result("regenerateInviteCode", user, groupId, groupId, Null, FALSE, "storeError"))

RemoveMemberBatch(groupId, memberId) ==
  <<DeleteW("group_members", MembershipId(memberId, groupId)),
    UpdateW("groups", groupId, NoDocs, -1)>>

removeMember(db, user, groupId, memberId, up) ==
  IF user = NoUser
  THEN Outcome(db, Result("removeMember", user, groupId, Null, memberId, FALSE, "signIn"))
  ELSE IF groupId \notin DOMAIN db.groups
  THEN Outcome(db, Result("removeMember", user, groupId, Null, memberId, FALSE, "notFound"))
  ELSE IF db.groups[groupId].admin_id # user
  THEN Outcome(db, Result("removeMember", user, groupId, groupId, memberId, FALSE, "notAdmin"))
  ELSE IF memberId = user
  THEN Outcome(db, Result("removeMember", user, groupId, groupId, memberId, FALSE, "self"))
  ELSE Committed(Commit(db, RemoveMemberBatch(groupId, memberId), up), db,
                 Result("removeMember", user, groupId, groupId, memberId, TRUE, "ok"),
                 Result("removeMember", user, groupId, groupId, memberId, FALSE, "storeError"))

\* A delete that leaves the memberships behind
DeleteGroupBatchKeepMembers(db, groupId) ==
  DeleteAll("games", DocsOfGroup(db, "games", groupId))
  \o DeleteAll("game_responses", DocsOfGroup(db, "game_responses", groupId))
  \o <<DeleteW("groups", groupId)>>

DeleteGroupBatch(db, groupId) ==
  DeleteAll("group_members", DocsOfGroup(db, "group_members", groupId))
  \o DeleteAll("games", DocsOfGroup(db, "games", groupId))
  \o DeleteAll("game_responses", DocsOfGroup(db, "game_responses", groupId))
  \o <<DeleteW("groups", groupId)>>

deleteGroup(db, user, groupId, up) ==
  IF user = NoUser
  THEN Outcome(db, Result("deleteGroup", user, groupId, Null, Null, FALSE, "signIn"))
  ELSE IF groupId \notin DOMAIN db.groups
  THEN Outcome(db, Result("deleteGroup", user, groupId, Null, Null, FALSE, "notFound"))
  ELSE IF db.groups[groupId].admin_id # user
  THEN Outcome(db, Result("deleteGroup", user, groupId, groupId, Null, FALSE, "notAdmin"))
  ELSE Committed(Commit(db, DeleteGroupBatch(db, groupId), up), db,
                 Result("deleteGroup", user, groupId, groupId, Null, TRUE, "ok"),
                 Result("deleteGroup", user, groupId, groupId, Null, FALSE, "storeError"))

\* A transfer that leaves the old admin flagged
TransferAdminBatchKeepOld(user, groupId, newAdminId) ==
  <<UpdateW("groups", groupId, [admin_id |-> newAdminId], 0),
    UpdateW("group_members", MembershipId(newAdminId, groupId), [is_admin |-> TRUE], 0)>>

TransferAdminBatch(user, groupId, newAdminId) ==
  <<UpdateW("groups", groupId, [admin_id |-> newAdminId], 0),
    UpdateW("group_members", MembershipId(user, groupId), [is_admin |-> FALSE], 0),
    UpdateW("group_members", MembershipId(newAdminId, groupId), [is_admin |-> TRUE], 0)>>

transferAdmin(db, user, groupId, newAdminId, up) ==
  IF user = NoUser
  THEN Outcome(db, Result("transferAdmin", user, groupId, Null, newAdminId, FALSE, "signIn"))
  ELSE IF groupId \notin DOMAIN db.groups
  THEN Outcome(db, Result("transferAdmin", user, groupId, Null, newAdminId, FALSE, "notFound"))
  ELSE IF db.groups[groupId].admin_id # user
  THEN Outcome(db, Result("transferAdmin", user, groupId, groupId, newAdminId, FALSE, "notAdmin"))
  ELSE IF MembershipId(newAdminId, groupId) \notin DOMAIN db.group_members
  THEN Outcome(db, Result("transferAdmin", user, groupId, groupId, newAdminId, FALSE, "notMember"))
  ELSE Committed(Commit(db, TransferAdminBatch(user, groupId, newAdminId), up), db,
                 Result("transferAdmin", user, groupId, groupId, newAdminId, TRUE, "ok"),
                 Result("transferAdmin", user, groupId, groupId, newAdminId, FALSE, "storeError"))

(***************************************************************************)
(* The inputs the callers supply.                                          *)
(***************************************************************************)
\* What the CreateGroup form submits: name, game days, time, time zone, frequency
GroupDatas ==
  {[name |-> "Thursday Night", gameDays |-> <<"Thursday">>, time |-> "19:00",
    timezone |-> "America/New_York", frequency |-> "weekly"]}

\* What GroupSettings saves: the whole form; the hook also takes a rename alone
UpdateChoices ==
  {[group_name |-> "Thursday Night"],
   [group_name |-> "Thursday Night", game_days |-> <<"Thursday">>, time |-> "19:00",
    timezone |-> "America/New_York", frequency |-> "weekly"],
   [group_name |-> "Mahjong Club", game_days |-> <<"Monday", "Friday">>, time |-> "18:30",
    timezone |-> "America/New_York", frequency |-> "biweekly"]}

(***************************************************************************)
(* Sessions: a browser session runs one operation at a time, and every     *)
(* await of the operation is a step other sessions may interleave with.    *)
(* call holds a call of a pure function and, once made, its value.         *)
(***************************************************************************)
SessionOrder == <<"s1", "s2">>
Sessions == {SessionOrder[i] : i \in 1..Len(SessionOrder)}

EmptyDB == [groups |-> NoDocs, group_members |-> NoDocs,
            games |-> NoDocs, game_responses |-> NoDocs]

\* A session with no operation in progress
Idle == [op |-> "idle", user |-> NoUser, arg |-> Null, target |-> Null, pc |-> "idle",
         view |-> EmptyDB, start |-> EmptyDB, success |-> FALSE, note |-> "none"]

NoCall == [fn |-> "none"]

(***************************************************************************)
(* State machine: operations run one at a time, each to completion.        *)
(***************************************************************************)
Drift(db, g) ==
  Cardinality(DocsOfGroup(db, "group_members", g)) - db.groups[g].member_count

Capped(db) == \A g \in DOMAIN db.groups : Drift(db, g) <= MaxDrift

\* What the state keeps of the last result: the operation, its verdict and its reason
Shown(result) == [op |-> result.op, success |-> result.success, note |-> result.note]

Do(out) ==
  /\ Capped(out.db)
  /\ groups' = out.db.groups
  /\ group_members' = out.db.group_members
  /\ games' = out.db.games
  /\ game_responses' = out.db.game_responses
  /\ last' = Shown(out.result)
  /\ UNCHANGED <<sessions, call>>

Init ==
  /\ groups = NoDocs
  /\ group_members = NoDocs
  /\ games = NoDocs
  /\ game_responses = NoDocs
  /\ now = 0
  /\ nextGroup = 1
  /\ tzShift = 1
  /\ last = Shown(Result("none", NoUser, Null, Null, Null, FALSE, "none"))
  /\ sessions = [s \in Sessions |-> Idle]
  /\ call = NoCall

\* Time passes on the server clock
Tick ==
  /\ now < MaxNow
  /\ now' = now + 1
  /\ UNCHANGED <<groups, group_members, games, game_responses, nextGroup, tzShift, last,
                 sessions, call>>

CreateGroup ==
  /\ nextGroup <= MaxGroups
  /\ \E user \in Callers, groupData \in GroupDatas, inviteCode \in Codes, up \in BOOLEAN :
       Do(createGroup(DB, user, groupData, inviteCode, GroupOrder[nextGroup], now, up))
  /\ nextGroup' = nextGroup + 1
  /\ UNCHANGED <<now, tzShift>>

JoinGroup ==
  /\ \E user \in Callers, inviteCodeOrId \in JoinInputs, up \in BOOLEAN :
       Do(joinGroup(DB, user, inviteCodeOrId, now, up))
  /\ UNCHANGED <<now, nextGroup, tzShift>>

LeaveGroup ==
  /\ \E user \in Callers, groupId \in GroupIds, up \in BOOLEAN :
       Do(leaveGroup(DB, user, groupId, up))
  /\ UNCHANGED <<now, nextGroup, tzShift>>

UpdateGroupSettings ==
  /\ \E user \in Callers, groupId \in GroupIds, updates \in UpdateChoices, fault \in 0..2 :
       Do(updateGroupSettings(DB, user, groupId, updates, now, fault))
  /\ UNCHANGED <<now, nextGroup, tzShift>>

RegenerateInviteCode ==
  /\ \E user \in Callers, groupId \in GroupIds, newCode \in Codes, up \in BOOLEAN :
       Do(regenerateInviteCode(DB, user, groupId, newCode, up))
  /\ UNCHANGED <<now, nextGroup, tzShift>>

RemoveMember ==
  /\ \E user \in Callers, groupId \in GroupIds, memberId \in Users, up \in BOOLEAN :
       Do(removeMember(DB, user, groupId, memberId, up))
  /\ UNCHANGED <<now, nextGroup, tzShift>>

DeleteGroup ==
  /\ \E user \in Callers, groupId \in GroupIds, up \in BOOLEAN :
       Do(deleteGroup(DB, user, groupId, up))
  /\ UNCHANGED <<now, nextGroup, tzShift>>

TransferAdmin ==
  /\ \E user \in Callers, groupId \in GroupIds, newAdminId \in Users, up \in BOOLEAN :
       Do(transferAdmin(DB, user, groupId, newAdminId, up))
  /\ UNCHANGED <<now, nextGroup, tzShift>>

Next ==
  \/ Tick
  \/ CreateGroup
  \/ JoinGroup
  \/ LeaveGroup
  \/ UpdateGroupSettings
  \/ RegenerateInviteCode
  \/ RemoveMember
  \/ DeleteGroup
  \/ TransferAdmin

Spec == Init /\ [][Next]_vars

(***************************************************************************)
(* Interleaved sessions.  An operation reads each collection at its own    *)
(* await and commits a batch built from what it read; the store may have   *)
(* changed in between.  A session's view holds, per collection, the        *)
(* snapshot its read returned; start is the store when it began.           *)
(* The store is available throughout: a batch fails only when it updates a *)
(* document that no longer exists.                                         *)
(***************************************************************************)
\* The schedule change a racing updateGroupSettings saves
RaceUpdate ==
  [group_name |-> "Mahjong Club", game_days |-> <<"Monday", "Friday">>, time |-> "18:30",
   timezone |-> "America/New_York", frequency |-> "biweekly"]

\* The calls a session may make: operation, user, group and target
RaceCalls ==
  {[op |-> o, user |-> u, arg |-> GroupOrder[1], target |-> Null] :
     o \in {"joinGroup", "leaveGroup", "deleteGroup", "updateGroupSettings"}, u \in Users}
  \cup
  {[op |-> o, user |-> u, arg |-> GroupOrder[1], target |-> n] :
     o \in {"transferAdmin", "removeMember"}, u \in Users, n \in Users}

\* return from the operation / go on to the next await
Ended(ses, success, note) == [ses EXCEPT !.pc = "done", !.success = success, !.note = note]
Await(ses, pc) == [ses EXCEPT !.pc = pc]

\* The admin check every useGroupAdmin operation makes on the group document it read
AdminOnly(ses, next) ==
  IF ses.arg \notin DOMAIN ses.view.groups THEN Ended(ses, FALSE, "notFound")
  ELSE IF ses.view.groups[ses.arg].admin_id # ses.user THEN Ended(ses, FALSE, "notAdmin")
  ELSE Await(ses, next)

\* What follows the read of the group document
AfterGroups(ses) ==
  CASE ses.op = "joinGroup" ->
         IF ResolveGroup(ses.view, ses.arg) = Null
         THEN Ended(ses, FALSE, "invalidCode") ELSE Await(ses, "group_members")
    [] ses.op = "leaveGroup" ->
         IF ses.arg \notin DOMAIN ses.view.groups THEN Ended(ses, FALSE, "notFound")
         ELSE IF ses.view.groups[ses.arg].admin_id = ses.user
         THEN Await(ses, "group_members") ELSE Await(ses, "commit")
    [] ses.op = "removeMember" ->
         IF ses.target = ses.user /\ AdminOnly(ses, "commit").pc = "commit"
         THEN Ended(ses, FALSE, "self") ELSE AdminOnly(ses, "commit")
    [] ses.op = "updateGroupSettings" -> AdminOnly(ses, "updateDoc")
    [] OTHER -> AdminOnly(ses, "group_members")

\* What follows the read of the memberships
AfterMembers(ses) ==
  CASE ses.op = "joinGroup" ->
         IF MembershipId(ses.user, ResolveGroup(ses.view, ses.arg))
              \in DOMAIN ses.view.group_members
         THEN Ended(ses, TRUE, "alreadyMember") ELSE Await(ses, "commit")
    [] ses.op = "leaveGroup" ->
         IF Len(OtherMembers(ses.view, ses.user, ses.arg)) > 0
         THEN Await(ses, "commit") ELSE Await(ses, "games")
    [] ses.op = "transferAdmin" ->
         IF MembershipId(ses.target, ses.arg) \notin DOMAIN ses.view.group_members
         THEN Ended(ses, FALSE, "notMember") ELSE Await(ses, "commit")
    [] OTHER -> Await(ses, "games")

\* What follows the read of the games
AfterGames(ses) ==
  IF ses.op = "deleteGroup" THEN Await(ses, "game_responses") ELSE Await(ses, "commit")

AfterRead(ses) ==
  CASE ses.pc = "groups" -> AfterGroups(ses)
    [] ses.pc = "group_members" -> AfterMembers(ses)
    [] ses.pc = "games" -> AfterGames(ses)
    [] OTHER -> Await(ses, "commit")

\* A batch that sets member_count from the count the session read, not by increment
RaceBatchStaleCount(ses, t) ==
  IF ses.op = "joinGroup"
  THEN <<SetW("group_members", MembershipId(ses.user, ResolveGroup(ses.view, ses.arg)),
              [user_id |-> ses.user, group_id |-> ResolveGroup(ses.view, ses.arg),
               is_admin |-> FALSE, joined_at |-> t]),
         UpdateW("groups", ResolveGroup(ses.view, ses.arg),
                 [member_count |->
                    ses.view.groups[ResolveGroup(ses.view, ses.arg)].member_count + 1], 0)>>
  ELSE <<>>

\* The batch the operation builds from what it read
RaceBatch(ses, t) ==
  CASE ses.op = "joinGroup" -> JoinBatch(ses.user, ResolveGroup(ses.view, ses.arg), t)
    [] ses.op = "leaveGroup" -> LeaveBatch(ses.view, ses.user, ses.arg)
    [] ses.op = "transferAdmin" -> TransferAdminBatch(ses.user, ses.arg, ses.target)
    [] ses.op = "removeMember" -> RemoveMemberBatch(ses.arg, ses.target)
    [] ses.op = "deleteGroup" -> DeleteGroupBatch(ses.view, ses.arg)
    [] ses.op = "updateGroupSettings" ->
         RegenerateBatch(ses.view, ses.arg, ses.view.groups[ses.arg], RaceUpdate, t)

\* The store becomes db; the session s becomes ses
RaceDo(s, ses, db) ==
  /\ sessions' = [sessions EXCEPT ![s] = ses]
  /\ groups' = db.groups
  /\ group_members' = db.group_members
  /\ games' = db.games
  /\ game_responses' = db.game_responses
  /\ UNCHANGED <<now, nextGroup, tzShift, last, call>>

\* After a write of the session: c is the commit
Written(ses, c, next) ==
  IF c.ok THEN next ELSE Ended(ses, FALSE, "storeError")

\* The store before any call
RaceInit ==
  /\ groups = NoDocs
  /\ group_members = NoDocs
  /\ games = NoDocs
  /\ game_responses = NoDocs
  /\ now = 0
  /\ nextGroup = 1
  /\ tzShift = 1
  /\ last = Shown(Result("none", NoUser, Null, Null, Null, FALSE, "none"))
  /\ sessions = [s \in Sessions |-> Idle]
  /\ call = NoCall

\* The history before the race, run one call at a time: u1 creates g1, others join it
SeedStore(out) ==
  /\ out.result.success
  /\ out.result.note = "ok"
  /\ groups' = out.db.groups
  /\ group_members' = out.db.group_members
  /\ games' = out.db.games
  /\ game_responses' = out.db.game_responses
  /\ UNCHANGED <<now, tzShift, last, sessions, call>>

SeedCreate ==
  /\ nextGroup = 1
  /\ \E groupData \in GroupDatas :
       SeedStore(createGroup(DB, UserOrder[1], groupData, CodeOrder[1], GroupOrder[1], now, TRUE))
  /\ nextGroup' = 2

SeedJoin ==
  /\ \A s \in Sessions : sessions[s].pc = "idle"
  /\ \E u \in Users : SeedStore(joinGroup(DB, u, GroupOrder[1], now, TRUE))
  /\ UNCHANGED nextGroup

\* A signed-in user starts an operation in an idle session
Begin ==
  \E s \in Sessions : \E c \in RaceCalls :
    /\ sessions[s].pc = "idle"
    /\ nextGroup > 1
    /\ RaceDo(s, [Idle EXCEPT !.op = c.op, !.user = c.user, !.arg = c.arg,
                              !.target = c.target, !.pc = "groups", !.start = DB], DB)

\* await getDoc / getDocs: the session reads the collection its next await names
Read ==
  \E s \in Sessions :
    /\ sessions[s].pc \in {"groups", "group_members", "games", "game_responses"}
    /\ RaceDo(s, AfterRead([sessions[s] EXCEPT !.view[sessions[s].pc] = DB[sessions[s].pc]]),
              DB)

\* await updateDoc of updateGroupSettings
UpdateDoc ==
  \E s \in Sessions :
    /\ sessions[s].pc = "updateDoc"
    /\ RaceDo(s,
              Written(sessions[s],
                      Commit(DB, <<UpdateW("groups", sessions[s].arg, RaceUpdate, 0)>>, TRUE),
                      Await(sessions[s], "games")),
              Commit(DB, <<UpdateW("groups", sessions[s].arg, RaceUpdate, 0)>>, TRUE).db)

\* await batch.commit()
CommitBatch ==
  \E s \in Sessions :
    /\ sessions[s].pc = "commit"
    /\ RaceDo(s,
              Written(sessions[s], Commit(DB, RaceBatch(sessions[s], now), TRUE),
                      Ended(sessions[s], TRUE, "ok")),
              Commit(DB, RaceBatch(sessions[s], now), TRUE).db)

RaceNext ==
  \/ SeedCreate
  \/ SeedJoin
  \/ Begin
  \/ Read
  \/ UpdateDoc
  \/ CommitBatch

SpecRace == RaceInit /\ [][RaceNext]_vars

(***************************************************************************)
(* Invite codes across groups: groups are created, their codes are         *)
(* regenerated and users join by id or by code, one call at a time.        *)
(***************************************************************************)
MaxCodeGroups == 2

CodeGroupIds == {GroupOrder[i] : i \in 1..MaxCodeGroups}

\* What a user may pass to joinGroup: a group id, a code as generated, a code as typed
CodeInputs == CodeGroupIds \cup Codes \cup {TypedOrder[i] : i \in 1..Len(TypedOrder)}

\* The call completes with outcome out; c records the function called and its argument
DoCalled(out, c) ==
  /\ groups' = out.db.groups
  /\ group_members' = out.db.group_members
  /\ games' = out.db.games
  /\ game_responses' = out.db.game_responses
  /\ last' = Shown(out.result)
  /\ call' = c
  /\ UNCHANGED <<now, tzShift, sessions>>

CodesCreate ==
  /\ nextGroup <= MaxCodeGroups
  /\ \E user \in Users, groupData \in GroupDatas, inviteCode \in Codes :
       DoCalled(createGroup(DB, user, groupData, inviteCode, GroupOrder[nextGroup], now, TRUE),
                [fn |-> "createGroup", arg |-> inviteCode])
  /\ nextGroup' = nextGroup + 1

CodesRegenerate ==
  /\ \E user \in Users, groupId \in CodeGroupIds, newCode \in Codes, up \in BOOLEAN :
       DoCalled(regenerateInviteCode(DB, user, groupId, newCode, up),
                [fn |-> "regenerateInviteCode", arg |-> newCode])
  /\ UNCHANGED nextGroup

CodesJoin ==
  /\ \E user \in Users, inviteCodeOrId \in CodeInputs :
       DoCalled(joinGroup(DB, user, inviteCodeOrId, now, TRUE),
                [fn |-> "joinGroup", arg |-> inviteCodeOrId])
  /\ UNCHANGED nextGroup

CodesNext ==
  \/ CodesCreate
  \/ CodesRegenerate
  \/ CodesJoin

SpecCodes == Init /\ [][CodesNext]_vars

(***************************************************************************)
(* generateInviteCode, character by character.  Two generators exist: the  *)
(* one of utils/groupUtils.js, used by createGroup and                     *)
(* regenerateInviteCode, and the one of utils/inviteCode, used by the      *)
(* create-group page (components/CreateGroup.jsx, handleSubmit).           *)
(* Math.random() is one of RandomGrain evenly spaced values of [0, 1).     *)
(***************************************************************************)
RandomGrain == 4

CodeLength == 6

\* groupUtils.js: 'ABCDEFGHJKLMNPQRSTUVWXYZ23456789'
chars ==
  <<"A", "B", "C", "D", "E", "F", "G", "H", "J", "K", "L", "M", "N", "P", "Q", "R",
    "S", "T", "U", "V", "W", "X", "Y", "Z", "2", "3", "4", "5", "6", "7", "8", "9">>

\* utils/inviteCode: 'ABCDEFGHIJKLMNOPQRSTUVWXYZ0123456789'
characters ==
  <<"A", "B", "C", "D", "E", "F", "G", "H", "I", "J", "K", "L", "M", "N", "O", "P", "Q", "R",
    "S", "T", "U", "V", "W", "X", "Y", "Z", "0", "1", "2", "3", "4", "5", "6", "7", "8", "9">>

InviteSources == {"groupUtils", "inviteCode"}

AlphabetOf(source) == IF source = "groupUtils" THEN chars ELSE characters

\* Math.floor(Math.random() * length), Math.random() being k / RandomGrain
randomIndex(k, length) == (k * length) \div RandomGrain

\* The document the create-group page adds
PageGroupDoc(user, inviteCode) ==
  [group_name |-> "Thursday Night", day_of_week |-> "Thursday", time |-> "19:00",
   frequency |-> "weekly", created_by |-> user, invite_code |-> inviteCode,
   created_at |-> now, members |-> <<user>>]

InviteBegin ==
  /\ call = NoCall
  /\ nextGroup = 1
  /\ \E source \in InviteSources :
       call' = [fn |-> "generateInviteCode", source |-> source, code |-> <<>>, i |-> 0,
                done |-> FALSE]
  /\ UNCHANGED <<groups, group_members, games, game_responses, now, nextGroup, tzShift,
                 last, sessions>>

\* One turn of the loop: code += chars[randomIndex]
InviteDraw ==
  /\ call.fn = "generateInviteCode"
  /\ ~call.done
  /\ call.i < CodeLength
  /\ \E k \in 0..(RandomGrain - 1) :
       call' = [call EXCEPT
                  !.code = Append(@, AlphabetOf(call.source)[randomIndex(k, Len(AlphabetOf(call.source))) + 1]),
                  !.i = @ + 1]
  /\ UNCHANGED <<groups, group_members, games, game_responses, now, nextGroup, tzShift,
                 last, sessions>>

\* The loop ends: return code
InviteReturn ==
  /\ call.fn = "generateInviteCode"
  /\ ~call.done
  /\ ~(call.i < CodeLength)
  /\ call' = [call EXCEPT !.done = TRUE]
  /\ UNCHANGED <<groups, group_members, games, game_responses, now, nextGroup, tzShift,
                 last, sessions>>

\* createGroup stores the code of groupUtils with the new group
InviteStoreByHook ==
  /\ call.fn = "generateInviteCode"
  /\ call.done
  /\ call.source = "groupUtils"
  /\ \E user \in Users, groupData \in GroupDatas, up \in BOOLEAN :
       DoCalled(createGroup(DB, user, groupData, call.code, GroupOrder[nextGroup], now, up),
                NoCall)
  /\ nextGroup' = nextGroup + 1

\* handleSubmit of the create-group page stores the code of utils/inviteCode with addDoc
InviteStoreByPage ==
  /\ call.fn = "generateInviteCode"
  /\ call.done
  /\ call.source = "inviteCode"
  /\ \E user \in Users, up \in BOOLEAN :
       /\ groups' = IF up THEN (GroupOrder[nextGroup] :> PageGroupDoc(user, call.code)) @@ groups
                    ELSE groups
       /\ last' = [op |-> "handleSubmit", success |-> up,
                   note |-> IF up THEN "ok" ELSE "storeError"]
  /\ call' = NoCall
  /\ nextGroup' = nextGroup + 1
  /\ UNCHANGED <<group_members, games, game_responses, now, tzShift, sessions>>

InviteNext ==
  \/ InviteBegin
  \/ InviteDraw
  \/ InviteReturn
  \/ InviteStoreByHook
  \/ InviteStoreByPage

SpecInvite == Init /\ [][InviteNext]_vars

(***************************************************************************)
(* generateUpcomingGames, one pass of its while loop at a time.  The call  *)
(* is made on some day from StartDay on, for some schedule and some        *)
(* weeksCount.                                                             *)
(***************************************************************************)
MaxWeeks == 8

MaxStart == 34

\* game_days as the forms store them; the empty array is what a form with no day ticked gives
GenWeekdays ==
  {<<>>, <<"Thursday">>, <<"Monday">>, <<"Friday", "Monday">>,
   <<"Sunday", "Tuesday", "Thursday">>, <<"Saturday", "Sunday">>, <<"Sunday", "Monday">>}

\* The days the call may be made on: the weeks from StartDay on, and the week before
\* the clocks go forward
SpringDay == DaysFromCivil(2027, 3, 22)

GenTodays == (StartDay..(StartDay + MaxStart)) \cup (SpringDay..(SpringDay + 6))

\* The browser's zone, as its standard offset from UTC in hours: New York, London, Berlin
Zones == {-5, 0, 1}

GenInit ==
  /\ groups = NoDocs
  /\ group_members = NoDocs
  /\ games = NoDocs
  /\ game_responses = NoDocs
  /\ now = 0
  /\ nextGroup = 1
  /\ tzShift \in Zones
  /\ last = Shown(Result("none", NoUser, Null, Null, Null, FALSE, "none"))
  /\ sessions = [s \in Sessions |-> Idle]
  /\ call = NoCall

Frequencies == {"weekly", "biweekly", "monthly"}

\* The state of the function at its first pass
GenCall(game_days, frequency, weeksCount, today) ==
  /\ call' = [fn |-> "generateUpcomingGames",
              groupInfo |-> [id |-> GroupOrder[1], game_days |-> game_days,
                             time |-> "19:00", frequency |-> frequency],
              targetDays |-> TargetDays(game_days),
              weeksCount |-> weeksCount,
              today |-> today,
              st |-> [currentDate |-> today, weekCount |-> 0,
                      lastWeekNumber |-> -1, games |-> <<>>],
              pc |-> "while",
              result |-> <<>>]
  /\ UNCHANGED <<groups, group_members, games, game_responses, now, nextGroup, tzShift,
                 last, sessions>>

GenBegin ==
  /\ call = NoCall
  /\ \E game_days \in GenWeekdays, frequency \in Frequencies,
        weeksCount \in 0..MaxWeeks, today \in GenTodays :
       GenCall(game_days, frequency, weeksCount, today)

\* while (weekCount < weeksCount) { ... }
GenPass ==
  /\ call.fn = "generateUpcomingGames"
  /\ call.pc = "while"
  /\ call.st.weekCount < call.weeksCount
  /\ call' = [call EXCEPT
                !.st = LoopBody(call.groupInfo, call.targetDays, call.groupInfo.frequency,
                                call.today, @, getWeekNumber(@.currentDate))]
  /\ UNCHANGED <<groups, group_members, games, game_responses, now, nextGroup, tzShift,
                 last, sessions>>

\* return games.sort(...).slice(0, weeksCount * targetDays.length)
GenReturn ==
  /\ call.fn = "generateUpcomingGames"
  /\ call.pc = "while"
  /\ ~(call.st.weekCount < call.weeksCount)
  /\ call' = [call EXCEPT
                !.pc = "done",
                !.result = SortAndSlice(call.st.games, call.weeksCount * Len(call.targetDays))]
  /\ UNCHANGED <<groups, group_members, games, game_responses, now, nextGroup, tzShift,
                 last, sessions>>

GenNext ==
  \/ GenBegin
  \/ GenPass
  \/ GenReturn

SpecGen == GenInit /\ [][GenNext]_vars

(***************************************************************************)
(* The same function over fewer calls, with its scheduling: the loop is    *)
(* synchronous code, so once called the function runs pass after pass and  *)
(* returns when the loop ends.                                             *)
(***************************************************************************)
MaxLiveWeeks == 4

MaxLiveStart == 4

LiveWeekdays == {<<>>, <<"Thursday">>, <<"Friday", "Monday">>}

\* Days in the last weeks of November 2026, from which a jump to the first of the
\* next month can land in the week of the pass before
LiveTodays == (StartDay + 14)..(StartDay + 14 + MaxLiveStart)

GenLiveBegin ==
  /\ call = NoCall
  /\ \E game_days \in LiveWeekdays, frequency \in Frequencies,
        weeksCount \in 0..MaxLiveWeeks, today \in LiveTodays :
       GenCall(game_days, frequency, weeksCount, today)

GenLiveNext ==
  \/ GenLiveBegin
  \/ GenPass
  \/ GenReturn

SpecGenLive == Init /\ [][GenLiveNext]_vars /\ WF_vars(GenPass) /\ WF_vars(GenReturn)

(***************************************************************************)
(* getPlayerCounts: the one of utils/formatters, which the game card uses, *)
(* and the one the group page defines for itself.  A text with a number in *)
(* it is the tuple of its parts; an alert of null is NoAlert.              *)
(***************************************************************************)
MaxResponses == 9

Statuses == {"going", "maybe", "not-going"}

NoAlert == [text |-> <<>>]

\* responses.filter(r => r.status === status).length
CountOf(responses, status) ==
  Cardinality({i \in 1..Len(responses) : responses[i].status = status})

\* `${going} going`, then ` / ${maybe} maybe` if maybe > 0
MessageOf(going, maybe) ==
  IF maybe > 0 THEN <<going, "going", maybe, "maybe">> ELSE <<going, "going">>

\* The if / else if chain of utils/formatters
AlertOf(going) ==
  IF going >= 4 /\ going < 5 THEN [type |-> "success", text |-> <<"Table 1 ready!">>]
  ELSE IF going >= 5 /\ going <= 7
  THEN [type |-> "warning", text |-> <<"Need", 8 - going, "more for Table 2!">>]
  ELSE IF going >= 8 THEN [type |-> "success", text |-> <<"Table 1 & 2 full!">>]
  ELSE IF going < 4 THEN [type |-> "info", text |-> <<"Need", 4 - going, "more to play">>]
  ELSE NoAlert

\* The if / else if chain of the group page
PageAlertOf(going) ==
  IF going >= 5 /\ going <= 7 THEN [text |-> <<"Need", 8 - going, "more for Table 2!">>]
  ELSE IF going >= 8 THEN [text |-> <<"Table 1 & 2 full">>]
  ELSE NoAlert

getPlayerCounts(responses) ==
  [message |-> MessageOf(CountOf(responses, "going"), CountOf(responses, "maybe")),
   alert |-> AlertOf(CountOf(responses, "going")),
   going |-> CountOf(responses, "going"),
   maybe |-> CountOf(responses, "maybe")]

PageGetPlayerCounts(responses) ==
  [message |-> MessageOf(CountOf(responses, "going"), CountOf(responses, "maybe")),
   alert |-> PageAlertOf(CountOf(responses, "going"))]

CountSources == {"formatters", "page"}

\* A game's list of responses is about to be shown
CountsBegin ==
  /\ call = NoCall
  /\ \E source \in CountSources :
       call' = [fn |-> "getPlayerCounts", source |-> source, responses |-> <<>>,
                pc |-> "responses", result |-> NoAlert]
  /\ UNCHANGED <<groups, group_members, games, game_responses, now, nextGroup, tzShift,
                 last, sessions>>

\* One more player has responded
CountsRespond ==
  /\ call.fn = "getPlayerCounts"
  /\ call.pc = "responses"
  /\ Len(call.responses) < MaxResponses
  /\ \E status \in Statuses :
       call' = [call EXCEPT
                  !.responses = Append(@, [userId |-> Len(@) + 1, status |-> status])]
  /\ UNCHANGED <<groups, group_members, games, game_responses, now, nextGroup, tzShift,
                 last, sessions>>

\* The card is rendered: getPlayerCounts(game.responses)
CountsCall ==
  /\ call.fn = "getPlayerCounts"
  /\ call.pc = "responses"
  /\ call' = [call EXCEPT
                !.pc = "done",
                !.result = IF call.source = "formatters" THEN getPlayerCounts(call.responses)
                           ELSE PageGetPlayerCounts(call.responses)]
  /\ UNCHANGED <<groups, group_members, games, game_responses, now, nextGroup, tzShift,
                 last, sessions>>

CountsNext ==
  \/ CountsBegin
  \/ CountsRespond
  \/ CountsCall

SpecCounts == Init /\ [][CountsNext]_vars

(***************************************************************************)
(* GroupPage (src/components/GroupPage.jsx): the page keeps its games in   *)
(* component state, filled with the page's own sample data, and its        *)
(* handlers replace that state.  call holds the mounted component.         *)
(***************************************************************************)
MaxPageGames == 3

\* auth.currentUser?.uid || 'user-1'
PageUsers == {"user-1", UserOrder[1]}

NoHost == [id |-> Null]

\* The responses and the host the page gives its first game; later games have none
MockResponses(i) ==
  IF i > 0 THEN <<>>
  ELSE <<[userId |-> "user-2", userName |-> "Alice Chen", status |-> "going"],
         [userId |-> "user-1", userName |-> "You", status |-> "going"],
         [userId |-> "user-3", userName |-> "Bob Wu", status |-> "going"],
         [userId |-> "user-4", userName |-> "Carol Lee", status |-> "maybe"]>>

MockGame(i) ==
  [id |-> i,
   date |-> StartDay + 7 * i,
   host |-> IF i > 0 THEN NoHost ELSE [id |-> "user-2", name |-> "Alice Chen"],
   responses |-> MockResponses(i),
   userResponse |-> IF i > 0 THEN Null ELSE "going"]

\* setGames(generateUpcomingGames(groupInfo, 8)): game-0, game-1, ...
MockGames == [k \in 1..MaxPageGames |-> MockGame(k - 1)]

\* A handler that adds the new response and keeps the old one
handleResponseKeepOld(pageGames, currentUserId, gameId, status) ==
  [k \in DOMAIN pageGames |->
     IF pageGames[k].id = gameId
     THEN [pageGames[k] EXCEPT
             !.responses = Append(@, [userId |-> currentUserId, userName |-> "You",
                                      status |-> status]),
             !.userResponse = status]
     ELSE pageGames[k]]

\* prevGames.map(game => game.id === gameId ? {...game, responses, userResponse} : game)
handleResponse(pageGames, currentUserId, gameId, status) ==
  [k \in DOMAIN pageGames |->
     IF pageGames[k].id = gameId
     THEN [pageGames[k] EXCEPT
             !.responses = Append(SelectSeq(@, LAMBDA r : r.userId # currentUserId),
                                  [userId |-> currentUserId, userName |-> "You",
                                   status |-> status]),
             !.userResponse = status]
     ELSE pageGames[k]]

PageMount ==
  /\ call = NoCall
  /\ \E currentUserId \in PageUsers :
       call' = [fn |-> "GroupPage", currentUserId |-> currentUserId, games |-> MockGames,
                handled |-> [handler |-> "none", gameId |-> -1, status |-> Null],
                toast |-> "none"]
  /\ UNCHANGED <<groups, group_members, games, game_responses, now, nextGroup, tzShift,
                 last, sessions>>

\* A response button of a game card is pressed
HandleResponse ==
  /\ call.fn = "GroupPage"
  /\ \E k \in DOMAIN call.games, status \in Statuses :
       call' = [call EXCEPT
                  !.games = handleResponse(@, call.currentUserId, call.games[k].id, status),
                  !.handled = [handler |-> "handleResponse", gameId |-> call.games[k].id,
                               status |-> status],
                  !.toast = "success"]
  /\ UNCHANGED <<groups, group_members, games, game_responses, now, nextGroup, tzShift,
                 last, sessions>>

\* The card offers hosting for a game without a host; the handler shows a notice only
HandleVolunteerToHost ==
  /\ call.fn = "GroupPage"
  /\ \E k \in DOMAIN call.games :
       /\ call.games[k].host = NoHost
       /\ call' = [call EXCEPT
                     !.handled = [handler |-> "handleVolunteerToHost",
                                  gameId |-> call.games[k].id, status |-> Null],
                     !.toast = "info"]
  /\ UNCHANGED <<groups, group_members, games, game_responses, now, nextGroup, tzShift,
                 last, sessions>>

PageNext ==
  \/ PageMount
  \/ HandleResponse
  \/ HandleVolunteerToHost

SpecPage == Init /\ [][PageNext]_vars

(***************************************************************************)
(* GroupView (src/components/GroupView.jsx): the view keeps its game dates *)
(* in component state, filled with sample data; the current user signs up  *)
(* to host a date or toggles attendance.                                   *)
(***************************************************************************)
MaxViewDates == 4

currentUser == [id |-> "1", name |-> "You"]

\* The sample dates: the first has a host and three attendees, the second one attendee
MockDate(i) ==
  [id |-> i + 1,
   date |-> StartDay + 7 * i,
   host |-> IF i = 0 THEN [id |-> "2", name |-> "Alice Chen"] ELSE NoHost,
   attendees |-> IF i = 0 THEN <<[id |-> "2", name |-> "Alice Chen"],
                                 [id |-> "3", name |-> "Bob Wu"],
                                 [id |-> "1", name |-> "You"]>>
                 ELSE IF i = 1 THEN <<[id |-> "1", name |-> "You"]>>
                 ELSE <<>>]

generateUpcomingDates == [k \in 1..MaxViewDates |-> MockDate(k - 1)]

\* date.attendees.some(a => a.id === currentUser.id)
isUserAttending(date) == \E a \in 1..Len(date.attendees) : date.attendees[a].id = currentUser.id

\* gameDates.map(date => date.id === dateId ? {...date, host: currentUser, attendees} : date)
handleSignUpToHost(gameDates, dateId) ==
  [k \in DOMAIN gameDates |->
     IF gameDates[k].id = dateId
     THEN [gameDates[k] EXCEPT
             !.host = currentUser,
             !.attendees = IF isUserAttending(gameDates[k]) THEN @ ELSE Append(@, currentUser)]
     ELSE gameDates[k]]

handleToggleAttendance(gameDates, dateId) ==
  [k \in DOMAIN gameDates |->
     IF gameDates[k].id = dateId
     THEN [gameDates[k] EXCEPT
             !.attendees = IF isUserAttending(gameDates[k])
                           THEN SelectSeq(@, LAMBDA a : a.id # currentUser.id)
                           ELSE Append(@, currentUser)]
     ELSE gameDates[k]]

ViewMount ==
  /\ call = NoCall
  /\ call' = [fn |-> "GroupView", gameDates |-> generateUpcomingDates,
              handled |-> [handler |-> "none", dateId |-> 0]]
  /\ UNCHANGED <<groups, group_members, games, game_responses, now, nextGroup, tzShift,
                 last, sessions>>

\* The 'Host this game' button, which is rendered for a date without a host
HandleSignUpToHost ==
  /\ call.fn = "GroupView"
  /\ \E k \in DOMAIN call.gameDates :
       /\ call.gameDates[k].host = NoHost
       /\ call' = [call EXCEPT
                     !.gameDates = handleSignUpToHost(@, call.gameDates[k].id),
                     !.handled = [handler |-> "handleSignUpToHost",
                                  dateId |-> call.gameDates[k].id]]
  /\ UNCHANGED <<groups, group_members, games, game_responses, now, nextGroup, tzShift,
                 last, sessions>>

\* The attendance button of a date
HandleToggleAttendance ==
  /\ call.fn = "GroupView"
  /\ \E k \in DOMAIN call.gameDates :
       call' = [call EXCEPT
                  !.gameDates = handleToggleAttendance(@, call.gameDates[k].id),
                  !.handled = [handler |-> "handleToggleAttendance",
                               dateId |-> call.gameDates[k].id]]
  /\ UNCHANGED <<groups, group_members, games, game_responses, now, nextGroup, tzShift,
                 last, sessions>>

ViewNext ==
  \/ ViewMount
  \/ HandleSignUpToHost
  \/ HandleToggleAttendance

SpecView == Init /\ [][ViewNext]_vars

(***************************************************************************)
(* Properties.  A property of one call is stated over every reachable      *)
(* store and every input of the call: the call's outcome is the value of   *)
(* the operation on the store.                                             *)
(***************************************************************************)
MembersOf(db, g) == DocsOfGroup(db, "group_members", g)

\* The call failed and wrote nothing
Refused(out, db) == out.result.success = FALSE /\ out.db = db

\* The call succeeded and wrote nothing
SucceededUnchanged(out, db) == out.result.success = TRUE /\ out.db = db

\* Group ids that were given out earlier and whose group is gone
StaleIds == {GroupOrder[i] : i \in 1..(nextGroup - 1)} \ DOMAIN groups

\* C1: every existing group's member_count equals the number of Membership records
\* whose group_id is that group.
C1_MemberCountIsLiveCount ==
  \A g \in DOMAIN groups : groups[g].member_count = Cardinality(MembersOf(DB, g))

\* C2: each existing group has exactly one Membership with is_admin = TRUE, and it is
\* the Membership of the group's admin_id.
C2_ExactlyOneAdmin ==
  \A g \in DOMAIN groups :
    {m \in MembersOf(DB, g) : group_members[m].is_admin}
      = {MembershipId(groups[g].admin_id, g)}

C2_Witness ==
  /\ last.op = "transferAdmin" /\ last.success
  /\ \E g \in DOMAIN groups :
       group_members[MembershipId(groups[g].admin_id, g)].joined_at > 0

\* The step taken is the call with outcome out
Took(out) ==
  /\ groups' = out.db.groups
  /\ group_members' = out.db.group_members
  /\ games' = out.db.games
  /\ game_responses' = out.db.game_responses
  /\ last' = Shown(out.result)

\* The step reports failure and leaves every record as it was
FailedWithoutEffect == last'.success = FALSE /\ UNCHANGED store

\* C3: leaveGroup by a user with no Membership in the group, and removeMember by the
\* admin for a target with no Membership in the group, fail and change no record.
C3_NonMemberCallsRefused ==
  [][\A g \in DOMAIN groups : \A u \in Users : \A up \in BOOLEAN :
       MembershipId(u, g) \notin DOMAIN group_members =>
         /\ Took(leaveGroup(DB, u, g, up)) => FailedWithoutEffect
         /\ Took(removeMember(DB, groups[g].admin_id, g, u, up)) => FailedWithoutEffect]_vars

\* C4: joinGroup for a (user, group) pair that already has a Membership returns
\* success and writes nothing: the pair keeps its one Membership and member_count
\* stays as it was.
C4_JoinTwiceIsIdempotent ==
  \A u \in Users : \A x \in JoinInputs : \A up \in BOOLEAN :
    (/\ ResolveGroup(DB, x) # Null
     /\ MembershipId(u, ResolveGroup(DB, x)) \in DOMAIN group_members)
    => SucceededUnchanged(joinGroup(DB, u, x, now, up), DB)

C4_Witness ==
  /\ last.op = "joinGroup" /\ last.note = "alreadyMember"
  /\ \E g \in DOMAIN groups : Cardinality(MembersOf(DB, g)) >= 2

\* The store after the only member, the admin, has left group g
GroupGone(db, u, g) ==
  /\ g \notin DOMAIN db.groups
  /\ MembershipId(u, g) \notin DOMAIN db.group_members
  /\ DocsOfGroup(db, "games", g) = {}

\* C5: a Group record exists only if a Membership references it; when the admin
\* leaves as the only member the Group, that Membership and the group's Occurrences
\* are deleted; joinGroup with the id of a deleted group fails and creates nothing.
C5_NoGroupWithoutMembers ==
  /\ \A g \in DOMAIN groups : MembersOf(DB, g) # {}
  /\ \A g \in DOMAIN groups :
       MembersOf(DB, g) = {MembershipId(groups[g].admin_id, g)}
         => /\ leaveGroup(DB, groups[g].admin_id, g, TRUE).result.success
            /\ GroupGone(leaveGroup(DB, groups[g].admin_id, g, TRUE).db, groups[g].admin_id, g)
  /\ \A g \in StaleIds : \A u \in Users : \A up \in BOOLEAN :
       Refused(joinGroup(DB, u, g, now, up), DB)

C5_Witness ==
  /\ last.op = "leaveGroup" /\ last.note = "wasAdmin"
  /\ StaleIds # {}
  /\ group_members = NoDocs /\ games = NoDocs

\* The remaining members of g when u leaves
Remaining(g, u) == MembersOf(DB, g) \ {MembershipId(u, g)}

\* n joined no later than every remaining member, and comes first in document id
\* order among those who joined at the same instant
IsEarliest(n, S) ==
  \A o \in S \ {n} :
    \/ group_members[n].joined_at < group_members[o].joined_at
    \/ /\ group_members[n].joined_at = group_members[o].joined_at
       /\ Index(UserOrder, n[1]) < Index(UserOrder, o[1])

\* After the admin's leave: admin_id names n, n is flagged, nobody else changed
Succeeded(out, g, n, S) ==
  /\ out.result.success
  /\ out.db.groups[g].admin_id = n[1]
  /\ out.db.group_members[n].is_admin
  /\ \A o \in S \ {n} : /\ o \in DOMAIN out.db.group_members
                        /\ out.db.group_members[o] = group_members[o]

\* C6: when the admin leaves and other members exist, the new admin_id is the
\* remaining member with the earliest joined_at (ties by document id), that
\* member's is_admin becomes TRUE, and no other remaining member changes.
C6_EarliestMemberSucceeds ==
  \A g \in DOMAIN groups :
    Remaining(g, groups[g].admin_id) # {} =>
      \E n \in Remaining(g, groups[g].admin_id) :
        /\ IsEarliest(n, Remaining(g, groups[g].admin_id))
        /\ Succeeded(leaveGroup(DB, groups[g].admin_id, g, TRUE), g, n,
                     Remaining(g, groups[g].admin_id))

C6_Witness ==
  /\ last.op = "leaveGroup" /\ last.note = "wasAdmin"
  /\ \E g \in DOMAIN groups : \E o \in MembersOf(DB, g) :
       /\ group_members[MembershipId(groups[g].admin_id, g)].joined_at
            < group_members[o].joined_at
       /\ Index(UserOrder, groups[g].admin_id) > Index(UserOrder, o[1])

\* No record of any collection refers to group g
NothingOf(db, g) ==
  /\ g \notin DOMAIN db.groups
  /\ DocsOfGroup(db, "group_members", g) = {}
  /\ DocsOfGroup(db, "games", g) = {}
  /\ DocsOfGroup(db, "game_responses", g) = {}

\* Attendance responses a client may have stored: one per user and group id
ResponseIds == {<<u, g>> : u \in Users, g \in GroupIds}

\* The store holding the responses R, each carrying its group's id
WithResponses(db, R) ==
  [db EXCEPT !.game_responses = [r \in R |-> [group_id |-> r[2]]]]

\* The admin's deleteGroup succeeds and leaves no record of g
Cascaded(out, g) == out.result.success /\ NothingOf(out.db, g)

\* C7: after a successful deleteGroup by the admin no Group, Membership, Occurrence
\* or AttendanceResponse record with that group id remains, whatever responses the
\* store held.
C7_DeleteCascades ==
  \A g \in DOMAIN groups : \A R \in SUBSET ResponseIds :
    Cascaded(deleteGroup(WithResponses(DB, R), groups[g].admin_id, g, TRUE), g)

C7_Witness ==
  /\ last.op = "deleteGroup" /\ last.success
  /\ StaleIds # {}
  /\ group_members = NoDocs /\ games = NoDocs

\* C8: updateGroupSettings, regenerateInviteCode, removeMember, deleteGroup and
\* transferAdmin called by anyone but the group's admin_id, and removeMember called
\* by the admin on itself, return failure and leave every record unchanged.
C8_OnlyAdminMutates ==
  \A g \in DOMAIN groups :
    /\ \A u \in Callers \ {groups[g].admin_id} :
         /\ \A updates \in UpdateChoices : \A fault \in 0..2 :
              Refused(updateGroupSettings(DB, u, g, updates, now, fault), DB)
         /\ \A newCode \in Codes : \A up \in BOOLEAN :
              Refused(regenerateInviteCode(DB, u, g, newCode, up), DB)
         /\ \A target \in Users : \A up \in BOOLEAN :
              /\ Refused(removeMember(DB, u, g, target, up), DB)
              /\ Refused(transferAdmin(DB, u, g, target, up), DB)
         /\ \A up \in BOOLEAN : Refused(deleteGroup(DB, u, g, up), DB)
    /\ \A up \in BOOLEAN :
         Refused(removeMember(DB, groups[g].admin_id, g, groups[g].admin_id, up), DB)

C8_Witness ==
  /\ last.note = "notAdmin"
  /\ \E g \in DOMAIN groups : Cardinality(MembersOf(DB, g)) >= 2

\* After the transfer of g to n: admin_id names n, n alone is flagged, and the
\* memberships and member_count are what they were
Transferred(out, g, n) ==
  /\ out.result.success
  /\ out.db.groups[g].admin_id = n
  /\ out.db.groups[g].member_count = groups[g].member_count
  /\ DOMAIN out.db.group_members = DOMAIN group_members
  /\ \A m \in MembersOf(DB, g) :
       out.db.group_members[m] =
         [group_members[m] EXCEPT !.is_admin = (m = MembershipId(n, g))]

\* C9: transferAdmin by the admin to a user with a Membership in the group (the admin
\* included) sets admin_id to that user, leaves that user alone flagged is_admin,
\* and keeps member_count and the set of Memberships; to a user with no Membership
\* it fails and changes nothing.
C9_TransferMovesTheFlag ==
  \A g \in DOMAIN groups : \A n \in Users :
    IF MembershipId(n, g) \in DOMAIN group_members
    THEN Transferred(transferAdmin(DB, groups[g].admin_id, g, n, TRUE), g, n)
    ELSE \A up \in BOOLEAN : Refused(transferAdmin(DB, groups[g].admin_id, g, n, up), DB)

C9_Witness ==
  /\ last.op = "transferAdmin" /\ last.success
  /\ \E g \in DOMAIN groups : \E o \in MembersOf(DB, g) :
       /\ group_members[o].joined_at
            < group_members[MembershipId(groups[g].admin_id, g)].joined_at
       /\ ~group_members[o].is_admin

\* The store after user u created group g, gen being the generated games
Created(out, u, g, gen) ==
  /\ out.result.success
  /\ g \in DOMAIN out.db.groups
  /\ out.db.groups[g].admin_id = u
  /\ out.db.groups[g].member_count = 1
  /\ MembersOf(out.db, g) = {MembershipId(u, g)}
  /\ out.db.group_members[MembershipId(u, g)].is_admin
  /\ Cardinality(DocsOfGroup(out.db, "games", g)) = Len(gen)
  /\ {out.db.games[id].date : id \in DocsOfGroup(out.db, "games", g)}
       = {gen[i].date : i \in 1..Len(gen)}
  /\ \A id \in DocsOfGroup(out.db, "games", g) :
       /\ out.db.games[id].host_id = Null
       /\ out.db.games[id].host_name = Null
       /\ out.db.games[id].host_address = Null

\* Forms a creator may submit: one day weekly, two days every other week, one day
\* monthly, three days weekly
CreateForms ==
  GroupDatas \cup
  {[name |-> "Mahjong Club", gameDays |-> <<"Monday", "Friday">>, time |-> "18:30",
    timezone |-> "America/Chicago", frequency |-> "biweekly"],
   [name |-> "First Saturday", gameDays |-> <<"Saturday">>, time |-> "14:00",
    timezone |-> "America/Los_Angeles", frequency |-> "monthly"],
   [name |-> "Three A Week", gameDays |-> <<"Sunday", "Tuesday", "Thursday">>,
    time |-> "19:00", timezone |-> "America/New_York", frequency |-> "weekly"]}

\* The games createGroup asks the generator for
GamesFor(groupId, groupData, t) ==
  generateUpcomingGames([id |-> groupId, game_days |-> groupData.gameDays,
                         time |-> groupData.time, frequency |-> groupData.frequency],
                        8, Today(t))

\* A failed batch leaves the store as it was, with no record of g
NoneWritten(out, db, g) == Refused(out, db) /\ NothingOf(out.db, g)

\* C10: a successful createGroup writes a Group with admin_id = creator and
\* member_count = 1, exactly one Membership for the group (the creator, is_admin),
\* and one Occurrence per generated date with null host fields; if the batch fails
\* none of these records exists.
C10_CreateWritesAllOrNothing ==
  nextGroup <= MaxGroups =>
    \A u \in Users : \A groupData \in CreateForms : \A inviteCode \in Codes :
      /\ Created(createGroup(DB, u, groupData, inviteCode, GroupOrder[nextGroup], now, TRUE),
                 u, GroupOrder[nextGroup], GamesFor(GroupOrder[nextGroup], groupData, now))
      /\ NoneWritten(createGroup(DB, u, groupData, inviteCode, GroupOrder[nextGroup], now, FALSE),
                     DB, GroupOrder[nextGroup])

C10_Witness ==
  /\ last.op = "createGroup" /\ last.success
  /\ \E g \in DOMAIN groups :
       /\ groups[g].member_count = 1
       /\ Cardinality(DocsOfGroup(DB, "games", g)) = 8

\* The weekdays a group's schedule names
WeekdaysOf(group) == {TargetDays(group.game_days)[i] : i \in 1..Len(group.game_days)}

\* A stored game agrees with the schedule its group holds
AgreesWith(game, group) ==
  game.time = group.time /\ GetDay(game.date) \in WeekdaysOf(group)

\* C11: a schedule change is all-or-nothing: in no reachable state do the Group's
\* schedule fields hold one schedule while the group's stored Occurrences dated after
\* now are those of another.
C11_ScheduleChangeAllOrNothing ==
  \A g \in DOMAIN groups : \A id \in FutureGames(DB, g, now) :
    AgreesWith(games[id], groups[g])

\* Schedule forms the admin may save: those of UpdateChoices and the same weekday
\* at another hour
ScheduleEdits ==
  UpdateChoices \cup
  {[group_name |-> "Thursday Night", game_days |-> <<"Thursday">>, time |-> "20:00",
    timezone |-> "America/New_York", frequency |-> "weekly"],
   [group_name |-> "First Saturday", game_days |-> <<"Saturday">>, time |-> "14:00",
    timezone |-> "America/New_York", frequency |-> "monthly"]}

\* The games of g whose stored date is not later than the instant t
PastGames(db, g, t) == DocsOfGroup(db, "games", g) \ FutureGames(db, g, t)

\* Every such game is in the store after the call, with all its fields
PastKept(out, g) ==
  \A id \in PastGames(DB, g, now) :
    id \in DOMAIN out.db.games /\ out.db.games[id] = games[id]

\* C12: updateGroupSettings never deletes or modifies an Occurrence whose stored date
\* is not later than now, whatever the new schedule is.
C12_PastOccurrencesUntouched ==
  \A g \in DOMAIN groups : \A updates \in ScheduleEdits : \A fault \in 0..2 :
    PastKept(updateGroupSettings(DB, groups[g].admin_id, g, updates, now, fault), g)

\* The games generateUpcomingGames returns for the schedule that updates leaves g with
GamesAfter(g, updates, t) ==
  generateUpcomingGames([id |-> g,
                         game_days |-> Either(updates, groups[g], "game_days"),
                         time |-> Either(updates, groups[g], "time"),
                         frequency |-> Either(updates, groups[g], "frequency")],
                        8, Today(t))

\* The store out.db holds, as the games of g dated after now, exactly those of gen
\* dated after now, each as generated
Regenerated(out, g, gen) ==
  /\ out.result.success
  /\ FutureGames(out.db, g, now) =
       {gen[i].id : i \in {j \in 1..Len(gen) : MidnightOf(gen[j].date) > now}}
  /\ \A i \in 1..Len(gen) :
       /\ gen[i].id \in DOMAIN out.db.games
       /\ out.db.games[gen[i].id] = GameDoc(g, gen[i])

\* C13: after a successful updateGroupSettings that carries schedule fields, the
\* group's Occurrences dated after now are exactly the ones generateUpcomingGames
\* returns for the new schedule; no Occurrence of the old schedule dated after now
\* survives.
C13_FutureOccurrencesRegenerated ==
  \A g \in DOMAIN groups : \A updates \in {e \in ScheduleEdits : ScheduleChanged(e)} :
    Regenerated(updateGroupSettings(DB, groups[g].admin_id, g, updates, now, 0),
                g, GamesAfter(g, updates, now))

C13_Witness ==
  /\ last.op = "updateGroupSettings" /\ last.success
  /\ \E g \in DOMAIN groups :
       /\ groups[g].frequency = "biweekly"
       /\ FutureGames(DB, g, now) # {}
       /\ \A id \in FutureGames(DB, g, now) : games[id].time = "18:30"

\* Both sessions have returned
BothDone(s, t) == s # t /\ sessions[s].pc = "done" /\ sessions[t].pc = "done"

\* The user of session s held a Membership in the group when the session began
MemberAtStart(s) ==
  MembershipId(sessions[s].user, sessions[s].arg) \in DOMAIN sessions[s].start.group_members

\* member_count of the group when session s began
CountAtStart(s) == sessions[s].start.groups[sessions[s].arg].member_count

Min(a, b) == IF a < b THEN a ELSE b

\* Two different users, neither a member when they began, have each run joinGroup
TwoJoins(s, t) ==
  /\ BothDone(s, t)
  /\ sessions[s].op = "joinGroup" /\ sessions[t].op = "joinGroup"
  /\ sessions[s].user # sessions[t].user
  /\ ~MemberAtStart(s) /\ ~MemberAtStart(t)

\* Both joined: two Memberships, and the count two above what it was before the first
BothJoined(s, t, g) ==
  /\ sessions[s].success /\ sessions[t].success
  /\ MembershipId(sessions[s].user, g) \in DOMAIN group_members
  /\ MembershipId(sessions[t].user, g) \in DOMAIN group_members
  /\ groups[g].member_count = Min(CountAtStart(s), CountAtStart(t)) + 2

\* C14: when two different users, neither yet a member, run joinGroup on the same
\* group with their reads and commits interleaved in any order, both return success,
\* both Memberships exist and member_count has increased by exactly 2.
C14_ConcurrentJoinsBothCount ==
  \A s \in Sessions : \A t \in Sessions :
    TwoJoins(s, t) => BothJoined(s, t, sessions[s].arg)

\* Both joins read the memberships before either committed
C14_Witness ==
  /\ TwoJoins(SessionOrder[1], SessionOrder[2])
  /\ sessions[SessionOrder[1]].success /\ sessions[SessionOrder[2]].success
  /\ sessions[SessionOrder[1]].view.group_members = sessions[SessionOrder[2]].view.group_members
  /\ sessions[SessionOrder[1]].start = sessions[SessionOrder[2]].start

\* The admin s transfers the group to the member t while t leaves
TransferRacesLeave(s, t) ==
  /\ sessions[s].op = "transferAdmin" /\ sessions[t].op = "leaveGroup"
  /\ sessions[s].start.groups[sessions[s].arg].admin_id = sessions[s].user
  /\ sessions[s].target = sessions[t].user
  /\ sessions[s].user # sessions[t].user
  /\ MemberAtStart(t)

\* The admin s and the only other member t both leave
LeaveRacesLeave(s, t) ==
  /\ sessions[s].op = "leaveGroup" /\ sessions[t].op = "leaveGroup"
  /\ sessions[s].start.groups[sessions[s].arg].admin_id = sessions[s].user
  /\ sessions[s].user # sessions[t].user
  /\ DocsOfGroup(sessions[s].start, "group_members", sessions[s].arg)
       = {MembershipId(sessions[s].user, sessions[s].arg),
          MembershipId(sessions[t].user, sessions[t].arg)}

\* The group is deleted, or its admin_id names a user holding a flagged Membership
DeletedOrAdministered(g) ==
  \/ g \notin DOMAIN groups
  \/ /\ MembershipId(groups[g].admin_id, g) \in DOMAIN group_members
     /\ group_members[MembershipId(groups[g].admin_id, g)].is_admin

\* C15: for every interleaving of transferAdmin(A to B) by admin A with leaveGroup by
\* B, and of leaveGroup by admin A with leaveGroup by the only other member B, both
\* begun in the same pre-state, the final state is a deleted group or a group whose
\* admin_id names a user who still holds a Membership with is_admin = TRUE.
C15_RacingAdminChangeKeepsAdmin ==
  \A s \in Sessions : \A t \in Sessions :
    (/\ BothDone(s, t)
     /\ sessions[s].start = sessions[t].start
     /\ TransferRacesLeave(s, t) \/ LeaveRacesLeave(s, t))
    => DeletedOrAdministered(sessions[s].arg)

\* C16: in every state reached with sessions interleaved, every Membership,
\* Occurrence and AttendanceResponse record refers to a Group record that exists.
C16_NoOrphanRecords ==
  \A coll \in {"group_members", "games", "game_responses"} :
    \A id \in DOMAIN DB[coll] : DB[coll][id].group_id \in DOMAIN groups

\* No two groups of the store hold the same invite_code
CodesDistinct(db) ==
  \A g, h \in DOMAIN db.groups : g # h => db.groups[g].invite_code # db.groups[h].invite_code

\* C17: after a successful regenerateInviteCode (called while all codes are distinct)
\* the group's new invite_code differs from the invite_code of every other existing
\* group: a collision is never persisted.
C17_RegeneratedCodeIsUnique ==
  [][\A g \in DOMAIN groups : \A newCode \in Codes :
       (/\ CodesDistinct(DB)
        /\ Took(regenerateInviteCode(DB, groups[g].admin_id, g, newCode, TRUE))
        /\ call'.fn = "regenerateInviteCode"
        /\ last'.success)
       => \A h \in DOMAIN groups' \ {g} : groups'[h].invite_code # groups'[g].invite_code]_vars

\* The groups whose invite_code is x written in upper case
GroupsWithCode(x) == {g \in DOMAIN groups : groups[g].invite_code = ToUpperCase(x)}

\* The call succeeded and u holds a Membership in g and has joined no other group
JoinedTo(out, u, g) ==
  /\ out.result.success
  /\ MembershipId(u, g) \in DOMAIN out.db.group_members
  /\ DOMAIN out.db.group_members \ DOMAIN group_members \subseteq {MembershipId(u, g)}

\* C18: joinGroup(x) joins the group whose document id equals x, otherwise the group
\* whose invite_code equals x in any letter case; if no group matches either way it
\* fails, writes no Membership and changes no member_count.
C18_JoinResolvesIdThenCode ==
  \A u \in Users : \A x \in CodeInputs :
    IF x \in DOMAIN groups THEN JoinedTo(joinGroup(DB, u, x, now, TRUE), u, x)
    ELSE IF GroupsWithCode(x) # {}
    THEN \E g \in GroupsWithCode(x) : JoinedTo(joinGroup(DB, u, x, now, TRUE), u, g)
    ELSE \A up \in BOOLEAN : Refused(joinGroup(DB, u, x, now, up), DB)

\* A user has just joined the second group by typing its code in lower case
C18_Witness ==
  /\ call = [fn |-> "joinGroup", arg |-> TypedOrder[1]]
  /\ last.success /\ last.note = "ok"
  /\ GroupOrder[2] \in DOMAIN groups
  /\ groups[GroupOrder[1]].invite_code # CodeOrder[1]
  /\ groups[GroupOrder[2]].invite_code = CodeOrder[1]
  /\ Cardinality(MembersOf(DB, GroupOrder[2])) = 2

Letters ==
  {"A", "B", "C", "D", "E", "F", "G", "H", "I", "J", "K", "L", "M", "N", "O", "P", "Q", "R",
   "S", "T", "U", "V", "W", "X", "Y", "Z"}

Digits == {"0", "1", "2", "3", "4", "5", "6", "7", "8", "9"}

\* Exactly 6 characters, each an uppercase letter or a digit other than I, O, 0, 1
WellFormed(code) ==
  /\ Len(code) = 6
  /\ \A i \in 1..Len(code) : code[i] \in (Letters \cup Digits) \ {"I", "O", "0", "1"}

\* C19: every invite code generated and stored is exactly 6 characters long and each
\* character is an uppercase letter or a digit other than I, O, 0 and 1.
C19_StoredCodesAreWellFormed ==
  \A g \in DOMAIN groups : WellFormed(groups[g].invite_code)

\* generateUpcomingGames has returned
Generated == call.fn = "generateUpcomingGames" /\ call.pc = "done"

\* C20: for every schedule with a non-empty weekday set, every frequency and every
\* horizon n, generateUpcomingGames(schedule, n) returns exactly n occurrences.
C20_ReturnsExactlyHorizon ==
  (Generated /\ Len(call.groupInfo.game_days) > 0) => Len(call.result) = call.weeksCount

DayNames ==
  <<"Sunday", "Monday", "Tuesday", "Wednesday", "Thursday", "Friday", "Saturday">>

\* The weekday name of a date
NameOfDay(z) == DayNames[GetDay(z) + 1]

\* The weekday names the schedule of the call asks for
Requested == {call.groupInfo.game_days[i] : i \in 1..Len(call.groupInfo.game_days)}

\* C21: the dates generateUpcomingGames returns are strictly ascending, none is earlier
\* than today's midnight and each falls on a weekday of the requested set.
C21_DatesAscendingFromToday ==
  Generated =>
    \A i \in 1..Len(call.result) :
      /\ call.result[i].date >= call.today
      /\ NameOfDay(call.result[i].date) \in Requested
      /\ i < Len(call.result) => call.result[i].date < call.result[i + 1].date

\* A three-day biweekly schedule has returned games, the first of them today's
C21_Witness ==
  /\ Generated
  /\ Len(call.groupInfo.game_days) = 3
  /\ call.groupInfo.frequency = "biweekly"
  /\ Len(call.result) >= 6
  /\ call.result[1].date = call.today

\* The calendar month of a date, as year and month
MonthOf(z) == <<CivilFromDays(z).y, CivilFromDays(z).m>>

\* C22: for monthly frequency, for any weekday set and any start date, no two
\* occurrences returned by generateUpcomingGames fall in the same calendar month.
C22_MonthlyOnePerMonth ==
  (Generated /\ call.groupInfo.frequency = "monthly") =>
    \A i, j \in 1..Len(call.result) :
      i # j => MonthOf(call.result[i].date) # MonthOf(call.result[j].date)

\* The returned dates that fall on the weekday named d
DatesOn(d) ==
  {call.result[i].date : i \in {k \in 1..Len(call.result) : NameOfDay(call.result[k].date) = d}}

\* C23: for biweekly frequency, for each requested weekday, the first returned date on
\* that weekday is its first occurrence on or after today and consecutive returned
\* dates on that weekday are exactly 14 days apart.
C23_BiweeklyFourteenDaysApart ==
  (Generated /\ call.groupInfo.frequency = "biweekly") =>
    \A d \in Requested : \A z \in DatesOn(d) :
      \/ z \in call.today..(call.today + 6)
      \/ (z - 14) \in DatesOn(d) /\ (z - 7) \notin DatesOn(d)

\* C24: generateUpcomingGames given an empty weekday set fails with an invalid-schedule
\* error instead of returning a list (so that createGroup and updateGroupSettings with
\* an empty weekday set fail and write nothing): the call never returns.
C24_EmptyWeekdaysRejected ==
  ~(Generated /\ call.groupInfo.game_days = <<>> /\ call.weeksCount > 0)

\* The first date on or after today whose weekday is the one named d
FirstOn(d) == CHOOSE z \in call.today..(call.today + 6) : NameOfDay(z) = d

\* C25: for weekly frequency with a single weekday d and horizon n, the k-th occurrence
\* returned (k = 1..n) is the first date on or after today whose weekday is d (today
\* itself when today's weekday is d) plus 7*(k-1) days, and each occurrence carries the
\* group's time, no host and an empty response list.
C25_WeeklySingleDaySeries ==
  (Generated /\ call.groupInfo.frequency = "weekly" /\ Len(call.groupInfo.game_days) = 1) =>
    /\ Len(call.result) = call.weeksCount
    /\ \A k \in 1..Len(call.result) :
         /\ call.result[k].date = FirstOn(call.groupInfo.game_days[1]) + 7 * (k - 1)
         /\ call.result[k].time = call.groupInfo.time
         /\ call.result[k].host = Null
         /\ call.result[k].responses = <<>>

\* A weekly Thursday schedule asked for on a Thursday has returned 8 games from today on
C25_Witness ==
  /\ Generated
  /\ call.groupInfo.frequency = "weekly"
  /\ call.groupInfo.game_days = <<"Thursday">>
  /\ call.today = StartDay
  /\ call.weeksCount = 8
  /\ Len(call.result) = 8
  /\ call.result[1].date = call.today
  /\ call.result[8].date = call.today + 49

\* C30: generateUpcomingGames terminates for every frequency, weekday set (the empty
\* set included), start date and horizon n >= 0: once called it returns.
C30_GeneratorTerminates ==
  (call.fn = "generateUpcomingGames") ~> Generated

\* A monthly schedule of one weekday has returned two games: the second comes from a
\* pass at the first day of a month that lies in the week of the previous pass
C30_Witness ==
  /\ Generated
  /\ call.groupInfo.frequency = "monthly"
  /\ Len(call.groupInfo.game_days) = 1
  /\ Len(call.result) >= 2

\* getPlayerCounts has returned for the responses of the call
Counted == call.fn = "getPlayerCounts" /\ call.pc = "done"

\* The number of 'going' responses of the call
Going == Cardinality({i \in 1..Len(call.responses) : call.responses[i].status = "going"})

\* The alert asks for k more players, with the given ending
Needs(text, k, ending) ==
  Len(text) = 3 /\ text[1] = "Need" /\ text[2] = k /\ text[3] = ending

\* The alert is a lone sentence beginning with the given words
Says(text, sentences) == Len(text) = 1 /\ text[1] \in sentences

\* C26: getPlayerCounts picks its tier from the number g of 'going' responses alone, and
\* for every g >= 0 exactly one tier applies: g < 4 gives 'Need (4-g) more to play',
\* g = 4 gives table ready, 5 <= g <= 7 gives 'Need (8-g) more for Table 2', g >= 8
\* gives tables full.
C26_PlayerCountTiers ==
  Counted =>
    /\ Going < 4 => Needs(call.result.alert.text, 4 - Going, "more to play")
    /\ Going = 4 => Says(call.result.alert.text, {"Table 1 ready!"})
    /\ (Going >= 5 /\ Going <= 7) =>
         Needs(call.result.alert.text, 8 - Going, "more for Table 2!")
    /\ Going >= 8 => Says(call.result.alert.text, {"Table 1 & 2 full!", "Table 1 & 2 full"})

\* No two responses of any game are by the same user
OnePerUser(pageGames) ==
  \A k \in DOMAIN pageGames :
    \A a, b \in 1..Len(pageGames[k].responses) :
      pageGames[k].responses[a].userId = pageGames[k].responses[b].userId => a = b

\* The responses of a game by users other than uid, in their order
ByOthers(game, uid) == SelectSeq(game.responses, LAMBDA r : r.userId # uid)

\* The statuses of the responses of uid to a game
StatusesBy(game, uid) ==
  {game.responses[a].status : a \in {b \in 1..Len(game.responses) : game.responses[b].userId = uid}}

\* C27: after any handleResponse(gameId, status) call each occurrence holds at most one
\* response per user, the user's stored response is the status of their most recent
\* call for that occurrence, and the responses of other users and of other occurrences
\* are unchanged by the call.
C27_ResponseReplacesOwnOnly ==
  [][(call.fn = "GroupPage" /\ call'.fn = "GroupPage"
      /\ call'.handled.handler = "handleResponse")
     => /\ OnePerUser(call'.games)
        /\ \A k \in DOMAIN call.games :
             IF call.games[k].id = call'.handled.gameId
             THEN /\ StatusesBy(call'.games[k], call.currentUserId) = {call'.handled.status}
                  /\ call'.games[k].userResponse = call'.handled.status
                  /\ ByOthers(call'.games[k], call.currentUserId)
                       = ByOthers(call.games[k], call.currentUserId)
                  /\ call'.games[k].host = call.games[k].host
             ELSE call'.games[k] = call.games[k]]_vars

\* user-1, who was going to the first game, has changed that response to maybe after
\* responding to the second game
C27_Witness ==
  /\ call.fn = "GroupPage"
  /\ call.currentUserId = "user-1"
  /\ call.handled = [handler |-> "handleResponse", gameId |-> 0, status |-> "maybe"]
  /\ Len(call.games[1].responses) = 4
  /\ call.games[1].responses[4] = [userId |-> "user-1", userName |-> "You", status |-> "maybe"]
  /\ Len(call.games[2].responses) = 1

SameUserJoins(s, t) ==
  /\ BothDone(s, t)
  /\ sessions[s].op = "joinGroup" /\ sessions[t].op = "joinGroup"
  /\ sessions[s].user = sessions[t].user
  /\ ~MemberAtStart(s) /\ ~MemberAtStart(t)

\* The admin s has run removeMember on the member t while t has run leaveGroup
RemoveRacesLeave(s, t) ==
  /\ BothDone(s, t)
  /\ sessions[s].op = "removeMember" /\ sessions[t].op = "leaveGroup"
  /\ sessions[s].start.groups[sessions[s].arg].admin_id = sessions[s].user
  /\ sessions[s].target = sessions[t].user
  /\ sessions[s].user # sessions[t].user
  /\ MemberAtStart(t)
  /\ MembershipId(sessions[t].user, sessions[t].arg) \in DOMAIN sessions[s].start.group_members

\* member_count of the group, if it exists, is the number of its Memberships
CountIsLive(g) ==
  g \in DOMAIN groups =>
    groups[g].member_count = Cardinality(DocsOfGroup(DB, "group_members", g))

\* C29: with each operation's reads and its batch commit as separate steps, member_count
\* equals the number of Membership records of the group after any interleaving of (a)
\* two joinGroup calls by the same user from two sessions and (b) removeMember(target)
\* by the admin with leaveGroup by that same target.
C29_CountSurvivesRaces ==
  \A s \in Sessions : \A t \in Sessions :
    (SameUserJoins(s, t) \/ RemoveRacesLeave(s, t)) => CountIsLive(sessions[s].arg)

====
